---- MODULE Spec2Model ----
(***************************************************************************)
(* The agent tool-call loop of the review agent                            *)
(* (services/claude-agent/agents/review_agent.py, fix_agent.py) together   *)
(* with the tool handlers it dispatches to (tools/codebase.py,             *)
(* tools/github.py) and the GitHub client calls it makes; and the codebase *)
(* indexer (services/indexer/main.py, embeddings.py, chunkers/*.py)        *)
(* with the push job that drives it (services/webhook-api/worker.py).      *)
(*                                                                         *)
(* A behaviour of Spec / SpecMalformed is one task instance:               *)
(* ReviewAgent.review_pr or FixAgent.fix_code.  A behaviour of SpecIndex   *)
(* is a sequence of indexer operations against one vector store.  A        *)
(* behaviour of SpecRepository is one indexer or search operation with     *)
(* every request it issued on record; one of SpecCall is a single call of  *)
(* a chunker or of embed_texts; one of SpecRace is two fix tasks           *)
(* committing to the same file of the same branch; one of SpecEnsure is    *)
(* the worker processes entering index_repository at the same time; one of *)
(* SpecWorker is the webhook queueing jobs and the worker running them     *)
(* (services/webhook-api/main.py, worker.py).  The                         *)
(* language model, the vector store, the embedding service and the GitHub  *)
(* API are the environment: every answer they can give (a value, or an     *)
(* exception) is a nondeterministic choice.                                *)
(*                                                                         *)
(* Texts are sequences of words; `"error" in text` is modelled by the      *)
(* words that hold the lower-case substring "error" (ErrorWords).          *)
(***************************************************************************)
EXTENDS Integers, Sequences, FiniteSets, TLC

VARIABLES
    task,               \* "review" (review_pr) or "fix" (fix_code)
    script,             \* the language model driving this run:
                        \* "free" | "looping" | "malformed"
    loopTool,           \* the tool a looping model invokes on every turn
    pc,                 \* position in review_pr / fix_code
    iteration,          \* the for-loop variable `iteration` (-1: not yet bound)
    messages,           \* the conversation list `messages`
    response,           \* the model response being processed
    blockIdx,           \* index of the next block of response.content
    assistant_content,  \* list `assistant_content` of the current cycle
    tool_results,       \* list `tool_results` of the current cycle
    comments_posted,    \* review_pr's counter
    fix_committed,      \* fix_code's flag
    result,             \* the dict returned by the task (NoResult before)
    raisedAt,           \* which call's exception left the task ("none" if none)
    github,             \* what the repository host has accepted so far
    hist                \* history of the run (model calls, dispatches)

VARIABLES
    qdrant,             \* the vector store: collection name -> collection
    seed,               \* the string-hash key of the running Python process
    pushes,             \* pushes delivered so far (each has its own head commit)
    ops,                \* indexer operations run so far
    lastOp              \* the last indexer operation: arguments and outcome

agentVars == <<task, script, loopTool, pc, iteration, messages, response, blockIdx,
               assistant_content, tool_results, comments_posted, fix_committed,
               result, raisedAt, github, hist>>

indexVars == <<qdrant, seed, pushes, ops, lastOp>>

VARIABLES
    call,               \* a chunker or embedding call: the function and its arguments
    returned            \* what that call returned or raised (NotReturned before)

callVars == <<call, returned>>

VARIABLES
    branch_file,        \* the file on the pull request's branch, at the repository host
    fixers,             \* the fix tasks working on that file: position and locals
    accepted            \* the commits the host accepted for the file, in order

raceVars == <<branch_file, fixers, accepted>>

VARIABLES
    ensuring,           \* the worker processes inside index_repository: position and locals
    jobs                \* the job queue: every job the webhook enqueued, with its state

workerVars == <<ensuring, jobs>>

vars == <<agentVars, indexVars, callVars, raceVars, workerVars>>

----------------------------------------------------------------------------
(* Bounds of the environment *)

\* A free model invokes at most this many tools in one run.
MaxToolCalls == 2

\* In a run of a looping model at most this many tool calls get an answer other
\* than the tool's plain success.
MaxLoopVaried == 1

----------------------------------------------------------------------------
(* Program constants *)

ReviewMaxIterations == 20

FixMaxIterations == 15

max_iterations == IF task = "review" THEN ReviewMaxIterations ELSE FixMaxIterations

\* ReviewAgent.TOOLS / FixAgent.TOOLS, and the names _handle_tool_call branches on
ReviewTools == {"search_codebase", "get_file_content", "post_review_comment"}

FixTools == {"search_codebase", "get_file_content", "commit_fix"}

Registry == IF task = "review" THEN ReviewTools ELSE FixTools

ToolNames == {"search_codebase", "get_file_content", "post_review_comment", "commit_fix"}

----------------------------------------------------------------------------
(* Texts *)

\* The words used below that hold the substring "error" (lower case).
ErrorWords == {"error", "is_error", "fix error handling",
               "Qdrant connection error: refused"}

\* Python: "error" in text
ContainsError(text) == \E i \in 1..Len(text) : text[i] \in ErrorWords

RECURSIVE Flatten(_)
Flatten(pairs) ==
    IF pairs = <<>> THEN <<>>
    ELSE <<Head(pairs)[1], Head(pairs)[2]>> \o Flatten(Tail(pairs))

\* Python: str(result) of a tool result (a plain string, or a dict / list of dicts
\* rendered as its keys and values in order).
PyStr(value) ==
    IF value.py = "str" THEN <<value.text>> ELSE Flatten(value.items)

\* Python: str(tool_result) of a result envelope (a dict: keys and values in order;
\* the key "is_error" is rendered only when the envelope has it).
PyStrEnvelope(env) ==
    <<"type", env.type, "tool_use_id", env.tool_use_id, "content">>
        \o env.content
        \o (IF "is_error" \in DOMAIN env THEN <<"is_error", "True">> ELSE <<>>)

----------------------------------------------------------------------------
(* The environment's answers *)

\* What the collaborators behind a tool can answer to one invocation.
SearchAnswers == {"hits", "not_indexed", "qdrant_down", "embed_fails", "search_fails"}

FileAnswers == {"ok", "http_error"}

CommentAnswers == {"created", "http_error"}

CommitAnswers == {"committed", "committed_error_in_message", "http_error"}

\* The answers in which the underlying operation failed.
FailedAnswers ==
    {"not_indexed", "qdrant_down", "embed_fails", "search_fails", "http_error", "key_error"}

Answers(name) ==
    IF name \notin Registry THEN {"not_called"}
    ELSE IF name = "search_codebase" THEN SearchAnswers
    ELSE IF name = "get_file_content" THEN FileAnswers
    ELSE IF name = "post_review_comment" THEN CommentAnswers
    ELSE CommitAnswers

DefaultAnswer(name) ==
    IF name \notin Registry THEN "not_called"
    ELSE IF name = "search_codebase" THEN "hits"
    ELSE IF name = "get_file_content" THEN "ok"
    ELSE IF name = "post_review_comment" THEN "created"
    ELSE "committed"

----------------------------------------------------------------------------
(* Tool handlers.  Each returns what the Python function does for one answer   *)
(* of its collaborators: the value returned or the exception raised, the       *)
(* collaborator calls made, and the effect accepted by the repository host.    *)

Returned(value, calls, effect) ==
    [raised |-> FALSE, value |-> value, calls |-> calls, effect |-> effect]

Raised(message, calls) ==
    [raised |-> TRUE, message |-> message, calls |-> calls, effect |-> "none"]

PyDict(items) == [py |-> "dict", items |-> items]

\* A list holding one dict.
PyList(items) == [py |-> "list", items |-> items]

PyText(text) == [py |-> "str", text |-> text]

\* tools/codebase.py search_codebase
search_codebase(answer) ==
    IF answer = "qdrant_down"
    THEN Returned(PyList(<< <<"error", "Qdrant connection error: refused">> >>),
                  <<"qdrant.get_collections">>, "none")
    ELSE IF answer = "not_indexed"
    THEN Returned(PyList(<< <<"error", "Repository not indexed yet">> >>),
                  <<"qdrant.get_collections">>, "none")
    ELSE IF answer = "embed_fails"
    THEN Raised("voyage unavailable", <<"qdrant.get_collections", "voyage.embed">>)
    ELSE IF answer = "search_fails"
    THEN Raised("qdrant timeout",
                <<"qdrant.get_collections", "voyage.embed", "qdrant.search">>)
    ELSE Returned(PyList(<< <<"file_path", "a.py">>, <<"score", "0.9">> >>),
                  <<"qdrant.get_collections", "voyage.embed", "qdrant.search">>, "none")

\* tools/codebase.py get_file_content -> GitHubClient.get_file_content
get_file_content(answer) ==
    IF answer = "http_error"
    THEN Raised("404 Not Found", <<"github.get_file_content">>)
    ELSE Returned(PyText("file text"), <<"github.get_file_content">>, "none")

\* tools/github.py post_review_comment -> GitHubClient.create_review_comment
post_review_comment(answer) ==
    IF answer = "http_error"
    THEN Raised("422 Unprocessable Entity", <<"github.create_review_comment">>)
    ELSE Returned(PyDict(<< <<"id", "1">>, <<"path", "a.py">> >>),
                  <<"github.create_review_comment">>, "comment")

\* tools/github.py commit_fix -> GitHubClient.create_or_update_file
commit_fix(answer) ==
    IF answer = "http_error"
    THEN Raised("409 Conflict", <<"github.create_or_update_file">>)
    ELSE Returned(PyDict(<< <<"sha", "abc">>,
                            <<"message", IF answer = "committed_error_in_message"
                                         THEN "fix error handling" ELSE "msg">> >>),
                  <<"github.create_or_update_file">>, "commit")

\* Mutant: the last branch of the chain is an else, so every other name runs
\* the task's side-effecting tool.
CallToolElseSideEffect(name, answer) ==
    IF name = "search_codebase" THEN search_codebase(answer)
    ELSE IF name = "get_file_content" THEN get_file_content(answer)
    ELSE IF task = "review" THEN post_review_comment(answer)
    ELSE commit_fix(answer)

\* The if/elif chain of _handle_tool_call (both agents; each has its own last tool).
\* Mutant: both agents dispatch every tool of either registry.
CallToolAnyTask(name, answer) ==
    IF name = "search_codebase" THEN search_codebase(answer)
    ELSE IF name = "get_file_content" THEN get_file_content(answer)
    ELSE IF name = "post_review_comment" THEN post_review_comment(answer)
    ELSE IF name = "commit_fix" THEN commit_fix(answer)
    ELSE Returned(PyDict(<< <<"error", "Unknown tool">> >>), <<>>, "none")

CallTool(name, answer) ==
    IF name = "search_codebase" THEN search_codebase(answer)
    ELSE IF name = "get_file_content" THEN get_file_content(answer)
    ELSE IF task = "review" /\ name = "post_review_comment" THEN post_review_comment(answer)
    ELSE IF task = "fix" /\ name = "commit_fix" THEN commit_fix(answer)
    ELSE Returned(PyDict(<< <<"error", "Unknown tool">> >>), <<>>, "none")

\* What the model put in a tool_use block's `input`, against the tool's
\* input_schema: conforming; lacking a required key; or every required key
\* present with a value outside the schema (line or limit not an integer, side
\* neither LEFT nor RIGHT).
InputClasses == {"valid", "missing_required", "bad_type"}

\* The argument expressions of the chosen branch, evaluated before the call:
\* tool_input["..."] raises KeyError on an absent key and tool_input.get(...)
\* never raises; no expression looks at the value.  An unknown name reaches
\* the else branch, which reads no key.
Invoke(tool_use, answer) ==
    IF tool_use.name \in Registry /\ tool_use.input = "missing_required"
    THEN Raised("KeyError", <<>>)
    ELSE CallTool(tool_use.name, answer)

\* The envelope _handle_tool_call returns after its try block.
SuccessEnvelope(tool_use, out) ==
    [type |-> "tool_result", tool_use_id |-> tool_use.id, content |-> PyStr(out.value)]

\* The envelope _handle_tool_call returns from its except block.
ErrorEnvelope(tool_use, out) ==
    [type |-> "tool_result", tool_use_id |-> tool_use.id,
     content |-> <<"Error:", out.message>>, is_error |-> TRUE]

\* _handle_tool_call: try the call, wrap a raised exception.
HandleToolCall(tool_use, answer) ==
    LET out == Invoke(tool_use, answer)
    IN  IF out.raised THEN ErrorEnvelope(tool_use, out) ELSE SuccessEnvelope(tool_use, out)

----------------------------------------------------------------------------
(* The language model's responses *)

ToolUse(id, name, input) ==
    [type |-> "tool_use", id |-> id, name |-> name, input |-> input]

TextBlock == [type |-> "text"]

\* A block of a type the loop has no branch for (e.g. "thinking").
OtherBlock == [type |-> "thinking"]

\* The ids the model gives the tool_use blocks of one turn, by position.
IdAt(i) == IF i = 1 THEN "toolu_a" ELSE IF i = 2 THEN "toolu_b" ELSE "toolu_c"

\* The block-type layouts of an arbitrary turn.
Shapes == { <<"text">>, <<"tool_use">>, <<"tool_use", "tool_use">>,
            <<"thinking", "tool_use", "text">> }

BlockOf(type, i, name, input) ==
    IF type = "tool_use" THEN ToolUse(IdAt(i), name, input)
    ELSE IF type = "text" THEN TextBlock ELSE OtherBlock

HasToolUse(content) == \E i \in 1..Len(content) : content[i].type = "tool_use"

ToolUses(content) == SelectSeq(content, LAMBDA b : b.type = "tool_use")

NumToolUses(content) == Len(ToolUses(content))

StopReasons(content) ==
    IF HasToolUse(content) THEN {"tool_use", "end_turn"} ELSE {"end_turn", "max_tokens"}

\* The (name, input) pairs of a tool_use block.  The input of a name the task
\* does not register is never read, so one class stands for all of them.
NamedInputs ==
    { ni \in ToolNames \X InputClasses : ni[1] \notin Registry => ni[2] = "valid" }

\* Every turn a free model can produce.
FreeResponses ==
    UNION { UNION { { [content |-> c, stop_reason |-> sr] : sr \in StopReasons(c) }
                    : c \in { [i \in 1..Len(s) |-> BlockOf(s[i], i, ni[i][1], ni[i][2])]
                              : ni \in [1..Len(s) -> NamedInputs] } }
            : s \in Shapes }

\* The turns of a model that always returns exactly one tool invocation.
LoopResponses ==
    { [content |-> <<ToolUse(IdAt(1), loopTool, "valid")>>, stop_reason |-> sr]
      : sr \in {"tool_use", "end_turn"} }

NoResponse == [content |-> <<>>, stop_reason |-> "none"]

NoResult == [returned |-> FALSE]

----------------------------------------------------------------------------
(* State *)

\* The two tools that write to the repository host.
SideEffectTools == {"post_review_comment", "commit_fix"}

NoDispatch ==
    [name |-> "none", input |-> "none", answer |-> "none", calls |-> <<>>, raised |-> FALSE]

\* A task about to start, its model being one of `scripts`.
AgentStart(scripts) ==
    /\ task \in {"review", "fix"}
    /\ script \in scripts
    /\ loopTool \in (IF script = "looping" THEN ToolNames ELSE {"none"})
    /\ pc = "start"
    /\ iteration = -1
    /\ messages = <<>>
    /\ response = NoResponse
    /\ blockIdx = 1
    /\ assistant_content = <<>>
    /\ tool_results = <<>>
    /\ comments_posted = 0
    /\ fix_committed = FALSE
    /\ result = NoResult
    /\ raisedAt = "none"
    /\ github = [comments |-> 0, commits |-> 0, replies |-> <<>>, reactions |-> <<>>]
    /\ hist = [modelCalls |-> 0, allOneTool |-> TRUE, zeroToolAt |-> 0,
               endTurnAt |-> 0, endReason |-> "none", varied |-> 0,
               dispatched |-> 0, succeeded |-> 0, last |-> NoDispatch]

NoOp == [op |-> "none"]

\* No indexer operation runs during an agent task.
IndexIdle ==
    /\ qdrant = <<>>
    /\ seed = 0
    /\ pushes = 0
    /\ ops = 0
    /\ lastOp = NoOp

NoCall == [fn |-> "none"]

NotReturned == [done |-> FALSE]

\* No chunker or embedding call is looked at on its own.
CallIdle ==
    /\ call = NoCall
    /\ returned = NotReturned

\* No fix tasks race for a file.
RaceIdle ==
    /\ branch_file = [version |-> 0, by |-> 0]
    /\ fixers = <<>>
    /\ accepted = <<>>

\* Runs whose model fills every tool_use input as the tool's schema asks.
\* No worker process and no queued job is part of the run.
WorkerIdle ==
    /\ ensuring = <<>>
    /\ jobs = <<>>

Init == AgentStart({"free", "looping"}) /\ IndexIdle /\ CallIdle /\ RaceIdle /\ WorkerIdle

\* Runs whose model may also send inputs that do not conform.
InitMalformed ==
    AgentStart({"malformed", "looping"}) /\ IndexIdle /\ CallIdle /\ RaceIdle /\ WorkerIdle

\* The task-framing user turn both agents start the conversation with.
InitialMessages == << [role |-> "user", content |-> <<[type |-> "framing"]>>] >>

\* Leaving the task by an exception raised at `where`.
Raise(where) ==
    /\ pc' = "raised"
    /\ raisedAt' = where

----------------------------------------------------------------------------
(* review_pr lines 59-88 / fix_code lines 61-103: fetch the task's data, *)
(* (fix) add the "eyes" reaction, build the first message.               *)

Preamble ==
    /\ pc = "start"
    /\ messages' = InitialMessages
    /\ comments_posted' = 0
    /\ fix_committed' = FALSE
    /\ github' = IF task = "fix"
                 THEN [github EXCEPT !.reactions = Append(@, "eyes")]
                 ELSE github
    /\ pc' = "loop"
    /\ UNCHANGED <<indexVars, callVars, raceVars, workerVars, task, script, loopTool, iteration, response, blockIdx,
                   assistant_content, tool_results, result, raisedAt, hist>>

\* One of the GitHub calls of the preamble raises (raise_for_status).
PreambleRaises ==
    /\ pc = "start"
    /\ Raise("preamble")
    /\ UNCHANGED <<indexVars, callVars, raceVars, workerVars, task, script, loopTool, iteration, messages, response, blockIdx,
                   assistant_content, tool_results, comments_posted, fix_committed,
                   result, github, hist>>

----------------------------------------------------------------------------
(* The agent loop *)

\* The responses the model of this run can give to its next call.
ModelResponses ==
    IF script = "looping" THEN LoopResponses
    ELSE { r \in FreeResponses :
             /\ hist.dispatched + NumToolUses(r.content) <= MaxToolCalls
             /\ script = "free" => \A i \in 1..Len(r.content) :
                    r.content[i].type = "tool_use" => r.content[i].input = "valid" }

\* Mutant: the range runs one value too far.
LoopHasNextInclusive == iteration + 1 <= max_iterations

\* `for iteration in range(max_iterations)`: is there a next value?
LoopHasNext == iteration + 1 < max_iterations

\* for-step and client.messages.create returning a response.
CallModel ==
    /\ pc = "loop"
    /\ LoopHasNext
    /\ \E r \in ModelResponses :
        /\ response' = r
        /\ hist' = [hist EXCEPT
                     !.modelCalls = @ + 1,
                     !.allOneTool = @ /\ NumToolUses(r.content) = 1,
                     !.zeroToolAt = IF @ = 0 /\ NumToolUses(r.content) = 0
                                    THEN hist.modelCalls + 1 ELSE @,
                     !.endTurnAt = IF @ = 0 /\ r.stop_reason = "end_turn"
                                   THEN hist.modelCalls + 1 ELSE @]
    /\ iteration' = iteration + 1
    /\ assistant_content' = <<>>
    /\ tool_results' = <<>>
    /\ blockIdx' = 1
    /\ pc' = "blocks"
    /\ UNCHANGED <<indexVars, callVars, raceVars, workerVars, task, script, loopTool, messages, comments_posted, fix_committed,
                   result, raisedAt, github>>

\* for-step and client.messages.create raising (API or network error): nothing
\* in review_pr / fix_code catches it.
CallModelRaises ==
    /\ pc = "loop"
    /\ LoopHasNext
    /\ iteration' = iteration + 1
    /\ hist' = [hist EXCEPT !.modelCalls = @ + 1]
    /\ Raise("model")
    /\ UNCHANGED <<indexVars, callVars, raceVars, workerVars, task, script, loopTool, messages, response, blockIdx,
                   assistant_content, tool_results, comments_posted, fix_committed,
                   result, github>>

\* range(max_iterations) is exhausted: the for statement ends.
LoopExhausted ==
    /\ pc = "loop"
    /\ ~LoopHasNext
    /\ pc' = "after_loop"
    /\ hist' = [hist EXCEPT !.endReason = "exhausted"]
    /\ UNCHANGED <<indexVars, callVars, raceVars, workerVars, task, script, loopTool, iteration, messages, response, blockIdx,
                   assistant_content, tool_results, comments_posted, fix_committed,
                   result, raisedAt, github>>

\* The block the for-loop over response.content is at.
CurrentBlock == response.content[blockIdx]

InBlocks == pc = "blocks" /\ blockIdx <= Len(response.content)

\* Mutant: the end of the loop body is reached from inside the for-loop over
\* the blocks, after its first pass.
AllBlocksProcessedEarly == blockIdx > 1

\* The for-loop over response.content has run out of blocks.
AllBlocksProcessed == blockIdx > Len(response.content)

\* Mutant: the repository host drops a comment or commit it has seen before.
AcceptDeduplicated(gh, effect) ==
    [gh EXCEPT !.comments = IF effect = "comment" /\ @ = 0 THEN 1 ELSE @,
               !.commits = IF effect = "commit" /\ @ = 0 THEN 1 ELSE @]

\* The repository host after one tool call: each accepted POST of a review
\* comment and each accepted PUT of a file adds one comment or commit.
Accept(gh, effect) ==
    [gh EXCEPT !.comments = IF effect = "comment" THEN @ + 1 ELSE @,
               !.commits = IF effect = "commit" THEN @ + 1 ELSE @]

\* review_agent.py line 119: the test guarding `comments_posted += 1`.
CountsAsComment(block, envelope) == block.name = "post_review_comment"

\* fix_agent.py line 134: the test guarding `fix_committed = True`.
CountsAsCommit(block, envelope) ==
    block.name = "commit_fix" /\ ~ContainsError(PyStrEnvelope(envelope))

\* The answers the environment may give to this invocation (a looping model's
\* run varies from the plain success a bounded number of times).
AllowedAnswers(name) ==
    { a \in Answers(name) :
        script = "looping" => (a = DefaultAnswer(name) \/ hist.varied < MaxLoopVaried) }

\* The outcomes of one invocation: an absent required key leaves nothing for
\* the environment to answer.
OutcomesOf(block) ==
    IF block.name \in Registry /\ block.input = "missing_required"
    THEN {"key_error"} ELSE AllowedAnswers(block.name)

\* block.type == "text": kept in the assistant turn.
ProcessTextBlock ==
    /\ InBlocks
    /\ CurrentBlock.type = "text"
    /\ assistant_content' = Append(assistant_content, CurrentBlock)
    /\ blockIdx' = blockIdx + 1
    /\ UNCHANGED <<indexVars, callVars, raceVars, workerVars, task, script, loopTool, pc, iteration, messages, response,
                   tool_results, comments_posted, fix_committed, result, raisedAt,
                   github, hist>>

\* block.type == "tool_use": kept, dispatched through _handle_tool_call, its
\* envelope collected, the task's outcome variable updated.
ProcessToolUseBlock ==
    /\ InBlocks
    /\ CurrentBlock.type = "tool_use"
    /\ \E answer \in OutcomesOf(CurrentBlock) :
        LET out == Invoke(CurrentBlock, answer)
            envelope == HandleToolCall(CurrentBlock, answer)
        IN  /\ assistant_content' = Append(assistant_content, CurrentBlock)
            /\ tool_results' = Append(tool_results, envelope)
            /\ github' = Accept(github, out.effect)
            /\ comments_posted' =
                 IF task = "review" /\ CountsAsComment(CurrentBlock, envelope)
                 THEN comments_posted + 1 ELSE comments_posted
            /\ fix_committed' =
                 IF task = "fix" /\ CountsAsCommit(CurrentBlock, envelope)
                 THEN TRUE ELSE fix_committed
            /\ hist' = [hist EXCEPT
                         !.varied = IF answer = DefaultAnswer(CurrentBlock.name)
                                    THEN @ ELSE @ + 1,
                         !.dispatched = @ + 1,
                         !.succeeded = IF CurrentBlock.name \in SideEffectTools
                                          /\ CurrentBlock.name \in Registry
                                          /\ ~out.raised
                                       THEN @ + 1 ELSE @,
                         !.last = [name |-> CurrentBlock.name,
                                   input |-> CurrentBlock.input, answer |-> answer,
                                   calls |-> out.calls, raised |-> out.raised]]
    /\ blockIdx' = blockIdx + 1
    /\ UNCHANGED <<indexVars, callVars, raceVars, workerVars, task, script, loopTool, pc, iteration, messages, response,
                   result, raisedAt>>

\* Any other block type: neither branch of the loop body applies.
SkipBlock ==
    /\ InBlocks
    /\ CurrentBlock.type \notin {"text", "tool_use"}
    /\ blockIdx' = blockIdx + 1
    /\ UNCHANGED <<indexVars, callVars, raceVars, workerVars, task, script, loopTool, pc, iteration, messages, response,
                   assistant_content, tool_results, comments_posted, fix_committed,
                   result, raisedAt, github, hist>>

AssistantTurn(content) == [role |-> "assistant", content |-> content]

ToolResultTurn(results) == [role |-> "user", content |-> results]

\* Mutant: the tool results are never appended.
AppendCycleAssistantOnly(msgs, content, results) ==
    Append(msgs, AssistantTurn(content))

\* Lines 122-127 (review) / 137-142 (fix): what the cycle appends to messages.
\* Mutant: the tool results are appended before the assistant turn.
AppendCycleResultsFirst(msgs, content, results) ==
    IF results # <<>>
    THEN Append(Append(msgs, ToolResultTurn(results)), AssistantTurn(content))
    ELSE Append(msgs, AssistantTurn(content))

AppendCycle(msgs, content, results) ==
    IF results # <<>>
    THEN Append(Append(msgs, AssistantTurn(content)), ToolResultTurn(results))
    ELSE Append(msgs, AssistantTurn(content))

\* Mutant: a turn without tool calls does not break.
BreakReasonEndTurnOnly(results, stop_reason) ==
    IF stop_reason = "end_turn" THEN "end_turn" ELSE "none"

\* Mutant: the stop-reason test is inverted.
BreakReasonInverted(results, stop_reason) ==
    IF results = <<>> THEN "no_tools"
    ELSE IF stop_reason # "end_turn" THEN "end_turn"
    ELSE "none"

\* Mutant: the stop reason is not looked at.
BreakReasonNoToolsOnly(results, stop_reason) ==
    IF results = <<>> THEN "no_tools" ELSE "none"

\* Lines 126-134 (review) / 141-149 (fix): why the cycle breaks out of the loop
\* ("none": it does not).
BreakReason(results, stop_reason) ==
    IF results = <<>> THEN "no_tools"
    ELSE IF stop_reason = "end_turn" THEN "end_turn"
    ELSE "none"

\* End of the loop body: append the turns, break or go to the next iteration.
EndCycle ==
    /\ pc = "blocks"
    /\ AllBlocksProcessed
    /\ messages' = AppendCycle(messages, assistant_content, tool_results)
    /\ LET why == BreakReason(tool_results, response.stop_reason)
       IN  /\ pc' = IF why = "none" THEN "loop" ELSE "after_loop"
           /\ hist' = [hist EXCEPT !.endReason = why]
    /\ UNCHANGED <<indexVars, callVars, raceVars, workerVars, task, script, loopTool, iteration, response, blockIdx,
                   assistant_content, tool_results, comments_posted, fix_committed,
                   result, raisedAt, github>>

----------------------------------------------------------------------------
(* After the loop *)

AffirmativeReply == "Fix has been committed to this PR."

NegativeReply == "Could not automatically fix this issue. Manual intervention required."

\* review_pr lines 136-145: log and return the summary.
ReviewReturn ==
    /\ pc = "after_loop"
    /\ task = "review"
    /\ result' = [returned |-> TRUE, comments_posted |-> comments_posted,
                  iterations |-> iteration + 1]
    /\ pc' = "returned"
    /\ UNCHANGED <<indexVars, callVars, raceVars, workerVars, task, script, loopTool, iteration, messages, response, blockIdx,
                   assistant_content, tool_results, comments_posted, fix_committed,
                   raisedAt, github, hist>>

\* The summary fix_code returns (lines 169-174).
FixSummary ==
    [returned |-> TRUE, fix_committed |-> fix_committed, iterations |-> iteration + 1]

\* fix_code lines 151-162: the reply to the originating comment is accepted.
\* Without a commit the task then returns; with one the rocket reaction follows.
FixReply ==
    /\ pc = "after_loop"
    /\ task = "fix"
    /\ github' = [github EXCEPT !.replies =
                    Append(@, IF fix_committed THEN AffirmativeReply ELSE NegativeReply)]
    /\ IF fix_committed
       THEN pc' = "react" /\ result' = result
       ELSE pc' = "returned" /\ result' = FixSummary
    /\ UNCHANGED <<indexVars, callVars, raceVars, workerVars, task, script, loopTool, iteration, messages, response, blockIdx,
                   assistant_content, tool_results, comments_posted, fix_committed,
                   raisedAt, hist>>

\* reply_to_review_comment raises (raise_for_status): no reply is posted.
FixReplyRaises ==
    /\ pc = "after_loop"
    /\ task = "fix"
    /\ Raise("reply")
    /\ UNCHANGED <<indexVars, callVars, raceVars, workerVars, task, script, loopTool, iteration, messages, response, blockIdx,
                   assistant_content, tool_results, comments_posted, fix_committed,
                   result, github, hist>>

\* fix_code line 157 and the return: the rocket reaction is accepted.
FixReact ==
    /\ pc = "react"
    /\ github' = [github EXCEPT !.reactions = Append(@, "rocket")]
    /\ result' = FixSummary
    /\ pc' = "returned"
    /\ UNCHANGED <<indexVars, callVars, raceVars, workerVars, task, script, loopTool, iteration, messages, response, blockIdx,
                   assistant_content, tool_results, comments_posted, fix_committed,
                   raisedAt, hist>>

\* add_reaction(..., "rocket") raises.
FixReactRaises ==
    /\ pc = "react"
    /\ Raise("reaction")
    /\ UNCHANGED <<indexVars, callVars, raceVars, workerVars, task, script, loopTool, iteration, messages, response, blockIdx,
                   assistant_content, tool_results, comments_posted, fix_committed,
                   result, github, hist>>

----------------------------------------------------------------------------

Next ==
    \/ Preamble
    \/ PreambleRaises
    \/ CallModel
    \/ CallModelRaises
    \/ LoopExhausted
    \/ ProcessTextBlock
    \/ ProcessToolUseBlock
    \/ SkipBlock
    \/ EndCycle
    \/ ReviewReturn
    \/ FixReply
    \/ FixReplyRaises
    \/ FixReact
    \/ FixReactRaises

Spec == Init /\ [][Next]_vars

SpecMalformed == InitMalformed /\ [][Next]_vars

----------------------------------------------------------------------------
(* The codebase indexer: inputs *)

\* At most this many indexer operations run in one behaviour.
MaxOps == 2

\* Point ids are kept modulo 2^IdWidth (the program keeps them modulo 2^63).
IdWidth == 3

\* Owner and repository names are sequences of characters.
RepoHyphen == [owner |-> <<"A", "c">>, repo |-> <<"w", "-", "a">>]

RepoUnderscore == [owner |-> <<"A", "c">>, repo |-> <<"w", "_", "a">>]

RepoOther == [owner |-> <<"b">>, repo |-> <<"l", "i", "b">>]

Repos == {RepoHyphen, RepoUnderscore, RepoOther}

\* File paths are <<stem, suffix>>.
PathGuide == <<"docs/guide", ".md">>

PathReadme == <<"README", ".MD">>

PathNotes == <<"notes", ".txt">>

Files == {PathGuide, PathReadme, PathNotes}

\* Code files.
PathMod == <<"pkg/mod", ".py">>

PathApp == <<"src/app", ".ts">>

PathView == <<"view", ".tsx">>

PathLib == <<"lib", ".js">>

PathForm == <<"form", ".jsx">>

\* File contents are sequences of lines; a line is a sequence of tokens.
DocV1 == << <<"# A">>, <<"x">>, <<"# B">>, <<"y">> >>

DocV2 == << <<"# A">>, <<"z">>, <<"# B">>, <<"y">> >>

DocShort == << <<"# A">>, <<"x">> >>

DocBlank == << <<>> >>

Contents == {DocV1, DocV2, DocShort, DocBlank}

\* The (path, content) pairs index_file is called with.
Documents ==
    { <<PathGuide, DocV1>>, <<PathGuide, DocV2>>, <<PathGuide, DocShort>>,
      <<PathGuide, DocBlank>>, <<PathReadme, DocShort>>, <<PathNotes, DocV1>> }

\* Refs: the branch name index_repository defaults to, and the head commit of
\* the n-th push (webhook-api/main.py passes data["after"] as ref).
Branch == <<"main", 0>>

Sha(n) == <<"sha", n>>

\* Whether each collaborator answers the requests of one operation: both do,
\* the vector store does not, the embedding service does not.
AllUp == [qdrant |-> TRUE, voyage |-> TRUE]

QdrantDown == [qdrant |-> FALSE, voyage |-> TRUE]

VoyageDown == [qdrant |-> TRUE, voyage |-> FALSE]

\* Operations that talk to the vector store only / to both collaborators.
StoreEnvs == {AllUp, QdrantDown}

Envs == {AllUp, QdrantDown, VoyageDown}

\* An outage during index_file or index_push is exercised on these inputs.
EnvsFor(input, faulted, envs) == IF input \in faulted THEN envs ELSE {AllUp}

----------------------------------------------------------------------------
(* The codebase indexer: pure parts *)

Min(a, b) == IF a <= b THEN a ELSE b

\* str.replace("-", "_"), one character.
ReplaceHyphen(c) == IF c = "-" THEN "_" ELSE c

\* str.lower(), one character or one suffix.
Lower(c) == IF c = "A" THEN "a" ELSE IF c = ".MD" THEN ".md" ELSE c

\* CodebaseIndexer._collection_name (and tools/codebase.py _collection_name).
collection_name(owner, repo) ==
    LET joined == owner \o <<"_">> \o repo
    IN  [i \in 1..Len(joined) |-> Lower(ReplaceHyphen(joined[i]))]

SUPPORTED_EXTENSIONS ==
    [ext \in {".ts", ".tsx", ".js", ".jsx", ".py", ".md"} |->
        IF ext = ".py" THEN "PythonASTChunker"
        ELSE IF ext = ".md" THEN "MarkdownChunker"
        ELSE "TreeSitterChunker"]

\* Mutant: a file of any other extension is given to the markdown chunker.
get_chunkerDefaulting(file_path) ==
    LET ext == Lower(file_path[2])
    IN  IF ext \in DOMAIN SUPPORTED_EXTENSIONS THEN SUPPORTED_EXTENSIONS[ext]
        ELSE "MarkdownChunker"

\* CodebaseIndexer._get_chunker: Path(file_path).suffix.lower() looked up.
get_chunker(file_path) ==
    LET ext == Lower(file_path[2])
    IN  IF ext \in DOMAIN SUPPORTED_EXTENSIONS THEN SUPPORTED_EXTENSIONS[ext] ELSE "None"

\* header_pattern ^(#{1,6})\s+(.+)$ on the lines in use, and its group 2.
IsHeader(line) == line \in {<<"# A">>, <<"# B">>}

HeaderName(line) == IF line = <<"# A">> THEN <<"A">> ELSE <<"B">>

\* Mutant: a section is kept whatever its lines hold.
HasTextAlways(lines) == TRUE

\* any(s.strip() for s in lines)
HasText(lines) == \E i \in 1..Len(lines) : \E j \in 1..Len(lines[i]) : lines[i][j] # "  "

\* file_path.split("/")[-1]
BaseName(file_path) ==
    <<(CASE file_path[1] = "docs/guide" -> "guide"
         [] file_path[1] = "src/app" -> "app"
         [] file_path[1] = "pkg/mod" -> "mod"
         [] OTHER -> file_path[1]), file_path[2]>>

\* The dataclass CodeChunk of chunkers/markdown.py.
CodeChunk(content, file_path, start_line, end_line, chunk_type, name) ==
    [content |-> content, file_path |-> file_path, start_line |-> start_line,
     end_line |-> end_line, chunk_type |-> chunk_type, name |-> name,
     language |-> "markdown"]

\* One pass of MarkdownChunker.chunk's loop over the lines.
MarkdownLine(acc, line, line_num, file_path) ==
    IF IsHeader(line)
    THEN [chunks |-> IF HasText(acc.section)
                     THEN Append(acc.chunks,
                                 CodeChunk(acc.section, file_path, acc.start,
                                           line_num - 1, "section", acc.name))
                     ELSE acc.chunks,
          section |-> <<line>>, name |-> HeaderName(line), start |-> line_num]
    ELSE [acc EXCEPT !.section = Append(@, line)]

RECURSIVE MarkdownLines(_, _, _, _)
MarkdownLines(lines, i, acc, file_path) ==
    IF i > Len(lines) THEN acc
    ELSE MarkdownLines(lines, i + 1, MarkdownLine(acc, lines[i], i, file_path), file_path)

\* MarkdownChunker.chunk
MarkdownChunker_chunk(content, file_path) ==
    LET acc == MarkdownLines(content, 1,
                             [chunks |-> <<>>, section |-> <<>>, name |-> <<>>,
                              start |-> 1], file_path)
        chunks == IF HasText(acc.section)
                  THEN Append(acc.chunks,
                              CodeChunk(acc.section, file_path, acc.start,
                                        Len(content), "section", acc.name))
                  ELSE acc.chunks
    IN  IF chunks = <<>> /\ HasText(content)
        THEN <<CodeChunk(content, file_path, 1, Len(content), "document",
                         BaseName(file_path))>>
        ELSE chunks

----------------------------------------------------------------------------
(* The code chunkers.  A code file is a sequence of lines and a line is a   *)
(* sequence of tokens; a column of a tree-sitter point counts tokens.  The  *)
(* parsers are libraries: what they give for each file in use is tabled.    *)

\* The number of characters of each token in use.
TokenLen(token) ==
    CASE token \in {"# A", "# B"} -> 3
      [] token = "export " -> 7
      [] token = "function " -> 9
      [] token = "class " -> 6
      [] token = " {" -> 2
      [] token = "  " -> 2
      [] token = "() {" -> 4
      [] token = "() {}" -> 5
      [] token = "return compute(1);" -> 18
      [] token = "() { return compute(1); }" -> 25
      [] token = "() { return this.compute(1); }" -> 30
      [] token = "let x = 1;" -> 10
      [] token = "}}} ???" -> 7
      [] token = "x = [[[[ ]]]];" -> 14
      [] OTHER -> 1

RECURSIVE SumLen(_)
SumLen(tokens) == IF tokens = <<>> THEN 0 ELSE TokenLen(Head(tokens)) + SumLen(Tail(tokens))

\* len(text) of a text of whole or partial lines, the newlines between counted.
RECURSIVE CodeLen(_)
CodeLen(text) ==
    IF text = <<>> THEN 0
    ELSE SumLen(Head(text)) + (IF Len(text) > 1 THEN 1 ELSE 0) + CodeLen(Tail(text))

\* content.strip() is not empty: some token is not white space.
CodeHasText(text) ==
    \E i \in 1..Len(text) : \E j \in 1..Len(text[i]) : text[i][j] # "  "

\* Nested calls a Python thread may have open (sys.getrecursionlimit(), which
\* is 1000 by default), kept small.
RecursionLimit == 5

\* A chunker call that returned a list of chunks, or raised.
Chunks(value) == [raised |-> FALSE, value |-> value]

ChunkerRaised(exception) == [raised |-> TRUE, value |-> exception]

(* tree-sitter *)

\* A syntax node: its type, its start and end points (row, column), children.
TsNode(type, start_point, end_point, children) ==
    [type |-> type, start_point |-> start_point, end_point |-> end_point,
     children |-> children]

\* `depth` nested array literals on line 1.
RECURSIVE TsNested(_)
TsNested(depth) ==
    TsNode("array", <<0, 0>>, <<0, 1>>,
           IF depth = 0 THEN <<>> ELSE <<TsNested(depth - 1)>>)

JsPlain ==
    << <<"function ", "f", "() {">>, <<"  ", "return compute(1);">>, <<"}">> >>

JsExported == << <<"export ", "function ", "f", "() { return compute(1); }">> >>

JsClass ==
    << <<"class ", "C", " {">>, <<"  ", "m", "() { return this.compute(1); }">>, <<"}">> >>

\* A class and its method on one line.
JsOneLine ==
    << <<"class ", "C", " {", "m", "() { return this.compute(1); }", "}">> >>

JsTiny == << <<"function ", "g", "() {}">> >>

JsNoDeclaration == << <<"let x = 1;">> >>

JsBroken == << <<"function ", "f", "() { return compute(1); }">>, <<"}}} ???">> >>

JsDeep == << <<"x = [[[[ ]]]];">> >>

CodeBlank == << <<>>, <<"  ">> >>

\* parser.parse(source): tree-sitter gives a tree for every text; a text with
\* a syntax error gets ERROR nodes beside the nodes it could recognise.
parser_parse(content) ==
    CASE content = JsPlain ->
            [has_error |-> FALSE, root_node |->
                TsNode("program", <<0, 0>>, <<2, 1>>,
                    <<TsNode("function_declaration", <<0, 0>>, <<2, 1>>,
                        <<TsNode("identifier", <<0, 1>>, <<0, 2>>, <<>>),
                          TsNode("statement_block", <<0, 2>>, <<2, 1>>, <<>>)>>)>>)]
      [] content = JsExported ->
            [has_error |-> FALSE, root_node |->
                TsNode("program", <<0, 0>>, <<0, 4>>,
                    <<TsNode("export_statement", <<0, 0>>, <<0, 4>>,
                        <<TsNode("function_declaration", <<0, 1>>, <<0, 4>>,
                            <<TsNode("identifier", <<0, 2>>, <<0, 3>>, <<>>),
                              TsNode("statement_block", <<0, 3>>, <<0, 4>>, <<>>)>>)>>)>>)]
      [] content = JsClass ->
            [has_error |-> FALSE, root_node |->
                TsNode("program", <<0, 0>>, <<2, 1>>,
                    <<TsNode("class_declaration", <<0, 0>>, <<2, 1>>,
                        <<TsNode("identifier", <<0, 1>>, <<0, 2>>, <<>>),
                          TsNode("class_body", <<0, 2>>, <<2, 1>>,
                            <<TsNode("method_definition", <<1, 1>>, <<1, 3>>,
                                <<TsNode("property_identifier", <<1, 1>>, <<1, 2>>, <<>>),
                                  TsNode("statement_block", <<1, 2>>, <<1, 3>>, <<>>)>>)>>)>>)>>)]
      [] content = JsOneLine ->
            [has_error |-> FALSE, root_node |->
                TsNode("program", <<0, 0>>, <<0, 6>>,
                    <<TsNode("class_declaration", <<0, 0>>, <<0, 6>>,
                        <<TsNode("identifier", <<0, 1>>, <<0, 2>>, <<>>),
                          TsNode("class_body", <<0, 2>>, <<0, 6>>,
                            <<TsNode("method_definition", <<0, 3>>, <<0, 5>>,
                                <<TsNode("property_identifier", <<0, 3>>, <<0, 4>>, <<>>),
                                  TsNode("statement_block", <<0, 4>>, <<0, 5>>, <<>>)>>)>>)>>)>>)]
      [] content = JsTiny ->
            [has_error |-> FALSE, root_node |->
                TsNode("program", <<0, 0>>, <<0, 3>>,
                    <<TsNode("function_declaration", <<0, 0>>, <<0, 3>>,
                        <<TsNode("identifier", <<0, 1>>, <<0, 2>>, <<>>)>>)>>)]
      [] content = JsNoDeclaration ->
            [has_error |-> FALSE, root_node |->
                TsNode("program", <<0, 0>>, <<0, 1>>,
                    <<TsNode("lexical_declaration", <<0, 0>>, <<0, 1>>, <<>>)>>)]
      [] content = JsBroken ->
            [has_error |-> TRUE, root_node |->
                TsNode("program", <<0, 0>>, <<1, 1>>,
                    <<TsNode("function_declaration", <<0, 0>>, <<0, 3>>,
                        <<TsNode("identifier", <<0, 1>>, <<0, 2>>, <<>>)>>),
                      TsNode("ERROR", <<1, 0>>, <<1, 1>>, <<>>)>>)]
      [] content = JsDeep ->
            [has_error |-> FALSE, root_node |->
                TsNode("program", <<0, 0>>, <<0, 1>>, <<TsNested(RecursionLimit)>>)]
      [] OTHER ->
            [has_error |-> FALSE, root_node |->
                TsNode("program", <<0, 0>>, <<Len(content) - 1, 0>>, <<>>)]

\* source[start_byte:end_byte] for the bytes between two points.
Slice(content, start_point, end_point) ==
    LET first == content[start_point[1] + 1]
        last == content[end_point[1] + 1]
    IN  IF start_point[1] = end_point[1]
        THEN <<SubSeq(first, start_point[2] + 1, end_point[2])>>
        ELSE <<SubSeq(first, start_point[2] + 1, Len(first))>>
             \o SubSeq(content, start_point[1] + 2, end_point[1])
             \o <<SubSeq(last, 1, end_point[2])>>

\* The dataclass CodeChunk of chunkers/treesitter.py.
TsCodeChunk(content, file_path, start_line, end_line, chunk_type, name, language) ==
    [content |-> content, file_path |-> file_path, start_line |-> start_line,
     end_line |-> end_line, chunk_type |-> chunk_type, name |-> name,
     language |-> language]

\* TreeSitterChunker._get_parser: the language of the parser chosen.
get_parser(file_path) ==
    IF file_path[2] = ".tsx" THEN "tsx"
    ELSE IF file_path[2] = ".ts" THEN "typescript"
    ELSE IF file_path[2] = ".jsx" THEN "jsx"
    ELSE "javascript"

\* TreeSitterChunker._extract_name
RECURSIVE extract_name(_, _, _)
extract_name(children, content, deeper) ==
    IF children = <<>> THEN <<>>
    ELSE LET child == Head(children)
         IN  IF child.type \in {"identifier", "property_identifier"}
             THEN Slice(content, child.start_point, child.end_point)[1]
             ELSE IF deeper /\ child.type = "variable_declarator"
                     /\ extract_name(child.children, content, FALSE) # <<>>
             THEN extract_name(child.children, content, FALSE)
             ELSE extract_name(Tail(children), content, deeper)

\* TreeSitterChunker._get_chunk_type
get_chunk_type(node_type) ==
    CASE node_type \in {"function_declaration", "function_expression", "arrow_function"}
            -> "function"
      [] node_type = "method_definition" -> "method"
      [] node_type \in {"class_declaration", "class_expression"} -> "class"
      [] node_type = "interface_declaration" -> "interface"
      [] node_type = "type_alias_declaration" -> "type"
      [] node_type = "enum_declaration" -> "enum"
      [] node_type = "export_statement" -> "export"
      [] node_type \in {"lexical_declaration", "variable_declaration"} -> "variable"
      [] OTHER -> "other"

\* TreeSitterChunker._should_chunk
should_chunk(node) ==
    node.type \in {"function_declaration", "function_expression", "arrow_function",
                   "method_definition", "class_declaration", "class_expression",
                   "interface_declaration", "type_alias_declaration",
                   "enum_declaration"}

\* `if len(content.strip()) > 20`
MinChunkChars == 20

\* `content = source[node.start_byte : node.end_byte].decode("utf-8")`
ChunkText(content, node) == Slice(content, node.start_point, node.end_point)

\* TreeSitterChunker._walk_tree: the chunks it yields, in order.
RECURSIVE walk_tree(_, _, _, _)
RECURSIVE WalkChildren(_, _, _, _)
walk_tree(node, content, file_path, language) ==
    LET text == ChunkText(content, node)
    IN  (IF should_chunk(node) /\ CodeLen(text) > MinChunkChars
         THEN <<TsCodeChunk(text, file_path, node.start_point[1] + 1,
                             node.end_point[1] + 1, get_chunk_type(node.type),
                             extract_name(node.children, content, TRUE), language)>>
         ELSE <<>>)
        \o WalkChildren(node.children, content, file_path, language)

WalkChildren(children, content, file_path, language) ==
    IF children = <<>> THEN <<>>
    ELSE walk_tree(Head(children), content, file_path, language)
         \o WalkChildren(Tail(children), content, file_path, language)

\* How many calls of a recursive walk are open at the deepest node.
RECURSIVE Height(_)
RECURSIVE MaxHeight(_)
Height(node) == 1 + MaxHeight(node.children)

MaxHeight(children) ==
    IF children = <<>> THEN 0
    ELSE LET h == Height(Head(children))
             rest == MaxHeight(Tail(children))
         IN  IF h >= rest THEN h ELSE rest

\* TreeSitterChunker.chunk
TreeSitterChunker_chunk(content, file_path) ==
    LET language == get_parser(file_path)
        tree == parser_parse(content)
    IN  IF Height(tree.root_node) > RecursionLimit THEN ChunkerRaised("RecursionError")
        ELSE LET chunks == walk_tree(tree.root_node, content, file_path, language)
             IN  IF chunks = <<>> /\ CodeHasText(content)
                 THEN Chunks(<<TsCodeChunk(content, file_path, 1, Len(content), "module",
                                           BaseName(file_path), language)>>)
                 ELSE Chunks(chunks)

(* the Python ast module *)

\* An ast node: its class, name, lineno, end_lineno (0: None), the linenos of
\* its decorators, its child nodes.
AstNode(kind, name, lineno, end_lineno, decorator_list, children) ==
    [kind |-> kind, name |-> name, lineno |-> lineno, end_lineno |-> end_lineno,
     decorator_list |-> decorator_list, children |-> children]

\* `depth` nested operators on line 1.
RECURSIVE AstNested(_)
AstNested(depth) ==
    AstNode("BinOp", "None", 1, 1, <<>>,
            IF depth = 0 THEN <<>> ELSE <<AstNested(depth - 1)>>)

PyDecorated ==
    << <<"@d">>, <<"def f():">>, <<"    return 1">>, <<>>,
       <<"class C:">>, <<"    def m(self):">>, <<"        pass">> >>

PyNestedDef == << <<"async def f():">>, <<"    def g(): pass">> >>

PyNoDef == << <<"x = 1">> >>

PyBad == << <<"def (:">>, <<>> >>

PyDeep == << <<"x = 1 + 1 + 1 + 1 + 1">> >>

\* ast.parse(content): the tree, or the SyntaxError it raises.
ast_parse(content) ==
    CASE content = PyDecorated ->
            [raises |-> "None", tree |->
                AstNode("Module", "None", 0, 0, <<>>,
                    <<AstNode("FunctionDef", "f", 2, 3, <<1>>,
                        <<AstNode("Return", "None", 3, 3, <<>>, <<>>)>>),
                      AstNode("ClassDef", "C", 5, 7, <<>>,
                        <<AstNode("FunctionDef", "m", 6, 7, <<>>,
                            <<AstNode("Pass", "None", 7, 7, <<>>, <<>>)>>)>>)>>)]
      [] content = PyNestedDef ->
            [raises |-> "None", tree |->
                AstNode("Module", "None", 0, 0, <<>>,
                    <<AstNode("AsyncFunctionDef", "f", 1, 2, <<>>,
                        <<AstNode("FunctionDef", "g", 2, 2, <<>>, <<>>)>>)>>)]
      [] content = PyNoDef ->
            [raises |-> "None", tree |->
                AstNode("Module", "None", 0, 0, <<>>,
                    <<AstNode("Assign", "None", 1, 1, <<>>, <<>>)>>)]
      [] content = PyBad -> [raises |-> "SyntaxError"]
      [] content = PyDeep ->
            [raises |-> "None", tree |->
                AstNode("Module", "None", 0, 0, <<>>,
                    <<AstNode("Assign", "None", 1, 1, <<>>,
                        <<AstNested(RecursionLimit)>>)>>)]
      [] OTHER -> [raises |-> "None", tree |-> AstNode("Module", "None", 0, 0, <<>>, <<>>)]

\* The dataclass CodeChunk of chunkers/ast_chunker.py.
PyCodeChunk(content, file_path, start_line, end_line, chunk_type, name) ==
    [content |-> content, file_path |-> file_path, start_line |-> start_line,
     end_line |-> end_line, chunk_type |-> chunk_type, name |-> name,
     language |-> "python"]

\* PythonASTChunker._get_source_segment
get_source_segment(source_lines, start_line, end_line) ==
    SubSeq(source_lines, start_line, Min(end_line, Len(source_lines)))

\* PythonASTChunker._get_end_line
get_end_line(node) == IF node.end_lineno # 0 THEN node.end_lineno ELSE node.lineno

\* `start_line = node.lineno`, or the first decorator's line.
RECURSIVE MinOf(_, _)
MinOf(least, linenos) ==
    IF linenos = <<>> THEN least ELSE MinOf(Min(least, Head(linenos)), Tail(linenos))

StartLine(node) ==
    IF node.decorator_list # <<>>
    THEN MinOf(Head(node.decorator_list), Tail(node.decorator_list))
    ELSE node.lineno

\* PythonASTChunker._extract_chunks
RECURSIVE extract_chunks(_, _, _, _)
RECURSIVE ExtractChildren(_, _, _, _)
extract_chunks(node, source_lines, file_path, parent_class) ==
    LET start_line == StartLine(node)
        end_line == get_end_line(node)
        content == get_source_segment(source_lines, start_line, end_line)
    IN  IF node.kind \in {"FunctionDef", "AsyncFunctionDef"}
        THEN <<PyCodeChunk(content, file_path, start_line, end_line,
                           IF parent_class # "None" THEN "method" ELSE "function",
                           IF parent_class # "None" THEN <<parent_class, ".", node.name>>
                           ELSE <<node.name>>)>>
        ELSE IF node.kind = "ClassDef"
        THEN <<PyCodeChunk(content, file_path, start_line, end_line, "class",
                           <<node.name>>)>>
             \o ExtractChildren(node.children, source_lines, file_path, node.name)
        ELSE ExtractChildren(node.children, source_lines, file_path, parent_class)

ExtractChildren(children, source_lines, file_path, parent_class) ==
    IF children = <<>> THEN <<>>
    ELSE extract_chunks(Head(children), source_lines, file_path, parent_class)
         \o ExtractChildren(Tail(children), source_lines, file_path, parent_class)

\* How many calls of _extract_chunks are open at the deepest node it visits: it
\* does not descend into a function.
RECURSIVE ExtractDepth(_)
RECURSIVE MaxExtractDepth(_)
ExtractDepth(node) ==
    IF node.kind \in {"FunctionDef", "AsyncFunctionDef"} THEN 1
    ELSE 1 + MaxExtractDepth(node.children)

MaxExtractDepth(children) ==
    IF children = <<>> THEN 0
    ELSE LET d == ExtractDepth(Head(children))
             rest == MaxExtractDepth(Tail(children))
         IN  IF d >= rest THEN d ELSE rest

\* `except SyntaxError`
Caught == {"SyntaxError"}

\* PythonASTChunker.chunk
PythonASTChunker_chunk(content, file_path) ==
    LET parsed == ast_parse(content)
        whole == PyCodeChunk(content, file_path, 1, Len(content), "module",
                             BaseName(file_path))
    IN  IF parsed.raises # "None"
        THEN (IF parsed.raises \in Caught THEN Chunks(<<whole>>)
              ELSE ChunkerRaised(parsed.raises))
        ELSE IF ExtractDepth(parsed.tree) > RecursionLimit
        THEN ChunkerRaised("RecursionError")
        ELSE LET chunks == extract_chunks(parsed.tree, content, file_path, "None")
             IN  IF chunks = <<>> /\ CodeHasText(content)
                 THEN Chunks(<<whole>>)
                 ELSE Chunks(chunks)

\* chunker.chunk(content, file_path) for the chunker _get_chunker returned.
chunk(chunker, content, file_path) ==
    CASE chunker = "MarkdownChunker" -> Chunks(MarkdownChunker_chunk(content, file_path))
      [] chunker = "PythonASTChunker" -> PythonASTChunker_chunk(content, file_path)
      [] chunker = "TreeSitterChunker" -> TreeSitterChunker_chunk(content, file_path)

\* VoyageEmbeddings.DIMENSION
DIMENSION == 1024

\* embed_texts' batch_size
batch_size == 128

\* chunk.content[:5000]
ContentLimit == 5000

\* len(content)
CharLen(lines) == CodeLen(lines)

\* content[:5000]: longer texts are cut.
Clip(content) ==
    IF CharLen(content) <= ContentLimit THEN content ELSE [cut |-> content]

\* The vector the embedding service gives a text in one mode.
Embedding(text, input_type) == [of |-> text, input_type |-> input_type, size |-> DIMENSION]

EmbedRequest(batch, input_type) ==
    [to |-> "voyage", op |-> "embed", n |-> Len(batch), batch |-> batch,
     input_type |-> input_type]

QdrantRequest(op, name) == [to |-> "qdrant", op |-> op, collection |-> name]

GitHubRequest(op, file_path) == [to |-> "github", op |-> op, path |-> file_path]

\* Mutant: only full batches are formed, the remaining texts are left out.
RECURSIVE BatchesFullOnly(_, _)
BatchesFullOnly(texts, size) ==
    IF Len(texts) < size THEN <<>>
    ELSE <<SubSeq(texts, 1, size)>>
         \o BatchesFullOnly(SubSeq(texts, size + 1, Len(texts)), size)

\* texts[i : i + batch_size] for i in range(0, len(texts), batch_size)
RECURSIVE Batches(_, _)
Batches(texts, size) ==
    IF texts = <<>> THEN <<>>
    ELSE IF Len(texts) <= size THEN <<texts>>
    ELSE <<SubSeq(texts, 1, size)>> \o Batches(SubSeq(texts, size + 1, Len(texts)), size)

\* What an operation did: raised or returned `value`, the store it left, the
\* requests it issued to its collaborators.
Out(raised, value, store, requests) ==
    [raised |-> raised, value |-> value, store |-> store, requests |-> requests]

\* Which request to the embedding service fails (0: none): the first one when
\* the service is down, or the one the environment names.
FailingRequest(env) ==
    IF env.voyage THEN 0
    ELSE IF "failing" \in DOMAIN env THEN env.failing
    ELSE 1

\* Mutant: a failing request ends the loop with the embeddings gathered so far.
RECURSIVE EmbedBatchesPartial(_, _, _, _, _)
EmbedBatchesPartial(batches, b, failing, all_embeddings, requests) ==
    IF b > Len(batches) THEN Out(FALSE, all_embeddings, <<>>, requests)
    ELSE LET issued == Append(requests, EmbedRequest(batches[b], "document"))
         IN  IF b = failing THEN Out(FALSE, all_embeddings, <<>>, issued)
             ELSE EmbedBatchesPartial(batches, b + 1, failing,
                                      all_embeddings
                                          \o [i \in 1..Len(batches[b]) |->
                                                 Embedding(batches[b][i], "document")],
                                      issued)

\* embed_texts' loop from batch b on: one request per batch, its embeddings
\* appended to all_embeddings; a failing request raises out of the loop.
RECURSIVE EmbedBatches(_, _, _, _, _)
EmbedBatches(batches, b, failing, all_embeddings, requests) ==
    IF b > Len(batches) THEN Out(FALSE, all_embeddings, <<>>, requests)
    ELSE LET issued == Append(requests, EmbedRequest(batches[b], "document"))
         IN  IF b = failing THEN Out(TRUE, "voyage error", <<>>, issued)
             ELSE EmbedBatches(batches, b + 1, failing,
                               all_embeddings
                                   \o [i \in 1..Len(batches[b]) |->
                                          Embedding(batches[b][i], "document")],
                               issued)

\* VoyageEmbeddings.embed_texts
embed_texts(texts, env) ==
    IF texts = <<>> THEN Out(FALSE, <<>>, <<>>, <<>>)
    ELSE EmbedBatches(Batches(texts, batch_size), 1, FailingRequest(env), <<>>, <<>>)

\* Mutant: the query is embedded as a document.
embed_queryAsDocument(query, env) ==
    IF ~env.voyage
    THEN Out(TRUE, "voyage error", <<>>, <<EmbedRequest(<<query>>, "document")>>)
    ELSE Out(FALSE, Embedding(query, "document"), <<>>,
             <<EmbedRequest(<<query>>, "document")>>)

\* VoyageEmbeddings.embed_query
embed_query(query, env) ==
    IF ~env.voyage THEN Out(TRUE, "voyage error", <<>>, <<EmbedRequest(<<query>>, "query")>>)
    ELSE Out(FALSE, Embedding(query, "query"), <<>>, <<EmbedRequest(<<query>>, "query")>>)

RECURSIVE Pow2(_)
Pow2(n) == IF n = 0 THEN 1 ELSE 2 * Pow2(n - 1)

\* A number for the string f"{file_path}:{start_line}:{ref}", one per string.
PathNo(file_path) ==
    CASE file_path = PathGuide -> 0
      [] file_path = PathReadme -> 1
      [] file_path = PathNotes -> 2
      [] file_path[2] = ".py" -> 3
      [] OTHER -> 4

KeyNo(file_path, start_line, ref) == PathNo(file_path) + 2 * start_line + 5 * ref[2]

\* hash(f"{file_path}:{start_line}:{ref}") % (2**63): Python's str hash is keyed
\* by a value drawn when the process starts (here `key`); within one process
\* it is a function of the string, and two strings may share a value.
point_id(file_path, start_line, ref, key) ==
    ((key + 1) * KeyNo(file_path, start_line, ref) + key) % Pow2(IdWidth)

PointStruct(id, vector, payload) == [id |-> id, vector |-> vector, payload |-> payload]

\* The PointStruct index_file builds for one (chunk, embedding) pair.
PointOf(c, embedding, owner, repo, file_path, ref, key) ==
    PointStruct(point_id(file_path, c.start_line, ref, key), embedding,
                [file_path |-> c.file_path, start_line |-> c.start_line,
                 end_line |-> c.end_line, chunk_type |-> c.chunk_type,
                 name |-> c.name, language |-> c.language,
                 content |-> Clip(c.content), ref |-> ref,
                 owner |-> owner, repo |-> repo])

----------------------------------------------------------------------------
(* The vector store *)

NewCollection(size, distance) == [size |-> size, distance |-> distance, points |-> {}]

\* create_collection: an existing name is refused.
create_collection(store, name, size, distance) ==
    IF name \in DOMAIN store
    THEN Out(TRUE, "409 already exists", store, <<QdrantRequest("create_collection", name)>>)
    ELSE Out(FALSE, TRUE,
             [n \in DOMAIN store \cup {name} |->
                 IF n = name THEN NewCollection(size, distance) ELSE store[n]],
             <<QdrantRequest("create_collection", name)>>)

\* upsert: each point of the list, in order, replaces the stored point of its id.
RECURSIVE Upsert(_, _)
Upsert(points, new) ==
    IF new = <<>> THEN points
    ELSE Upsert({p \in points : p.id # Head(new).id} \cup {Head(new)}, Tail(new))

\* Mutant: the filter also matches on the default ref.
DeleteMatchingOnBranch(points, file_path) ==
    {p \in points : ~(p.payload.file_path = file_path /\ p.payload.ref = Branch)}

\* delete with filter must [{key: file_path, match: {value: file_path}}]
DeleteMatching(points, file_path) ==
    {p \in points : p.payload.file_path # file_path}

\* search: what a query can get back, at most `limit` of the stored points.
SearchHits(points, limit) ==
    {hits \in SUBSET points : Cardinality(hits) = Min(limit, Cardinality(points))}

----------------------------------------------------------------------------
(* The codebase indexer: operations *)

\* Mutant: the collection is created whatever get_collections returned.
NeedsCreateAlways(name, existing_names) == TRUE

\* `if collection_name not in existing_names`
NeedsCreate(name, existing_names) == name \notin existing_names

\* CodebaseIndexer.ensure_collection
ensure_collection(store, owner, repo, env) ==
    LET name == collection_name(owner, repo)
        listed == <<QdrantRequest("get_collections", name)>>
    IN  IF ~env.qdrant THEN Out(TRUE, "qdrant unreachable", store, listed)
        ELSE IF NeedsCreate(name, DOMAIN store)
        THEN LET made == create_collection(store, name, DIMENSION, "Cosine")
             IN  IF made.raised THEN Out(TRUE, made.value, store, listed \o made.requests)
                 ELSE Out(FALSE, name, made.store, listed \o made.requests)
        ELSE Out(FALSE, name, store, listed)

\* CodebaseIndexer.index_file, run by a process whose hash key is `key`.
index_file(store, key, owner, repo, file_path, content, ref, env) ==
    LET chunker == get_chunker(file_path)
    IN  IF chunker = "None" THEN Out(FALSE, 0, store, <<>>)
        ELSE
        LET chunked == chunk(chunker, content, file_path)
            chunks == chunked.value
        IN  IF chunked.raised THEN Out(TRUE, chunked.value, store, <<>>)
            ELSE IF chunks = <<>> THEN Out(FALSE, 0, store, <<>>)
            ELSE
            LET embeddings == embed_texts([i \in 1..Len(chunks) |-> chunks[i].content], env)
            IN  IF embeddings.raised
                THEN Out(TRUE, embeddings.value, store, embeddings.requests)
                ELSE
                LET name == collection_name(owner, repo)
                    points == [i \in 1..Min(Len(chunks), Len(embeddings.value)) |->
                                  PointOf(chunks[i], embeddings.value[i], owner, repo,
                                          file_path, ref, key)]
                    requests == Append(embeddings.requests, QdrantRequest("upsert", name))
                IN  IF ~env.qdrant THEN Out(TRUE, "qdrant unreachable", store, requests)
                    ELSE IF name \notin DOMAIN store
                    THEN Out(TRUE, "404 collection not found", store, requests)
                    ELSE Out(FALSE, Len(points),
                             [store EXCEPT ![name].points = Upsert(@, points)], requests)

\* CodebaseIndexer.delete_file
delete_file(store, owner, repo, file_path, env) ==
    LET name == collection_name(owner, repo)
        requests == <<QdrantRequest("delete", name)>>
    IN  IF ~env.qdrant THEN Out(TRUE, "qdrant unreachable", store, requests)
        ELSE IF name \notin DOMAIN store
        THEN Out(TRUE, "404 collection not found", store, requests)
        ELSE Out(FALSE, 1,
                 [store EXCEPT ![name].points = DeleteMatching(@, file_path)], requests)

\* CodebaseIndexer.search, the store answering with `hits`.
search(store, owner, repo, query, limit, env, hits) ==
    LET name == collection_name(owner, repo)
        query_embedding == embed_query(query, env)
        requests == Append(query_embedding.requests, QdrantRequest("search", name))
    IN  IF query_embedding.raised
        THEN Out(TRUE, query_embedding.value, store, query_embedding.requests)
        ELSE IF ~env.qdrant THEN Out(TRUE, "qdrant unreachable", store, requests)
        ELSE IF name \notin DOMAIN store
        THEN Out(TRUE, "404 collection not found", store, requests)
        ELSE Out(FALSE, {h.payload : h \in hits}, store, requests)

\* tools/codebase.py search_codebase, the store answering with `hits`.
codebase_search_codebase(store, owner, repo, query, limit, env, hits) ==
    LET name == collection_name(owner, repo)
        listed == <<QdrantRequest("get_collections", name)>>
        embedded == Append(listed, EmbedRequest(<<query>>, "query"))
        requests == Append(embedded, QdrantRequest("search", name))
    IN  IF ~env.qdrant
        THEN Out(FALSE, {[error |-> "Qdrant connection error"]}, store, listed)
        ELSE IF name \notin DOMAIN store
        THEN Out(FALSE, {[error |-> "Repository not indexed yet"]}, store, listed)
        ELSE IF ~env.voyage THEN Out(TRUE, "voyage error", store, embedded)
        ELSE Out(FALSE,
                 {[file_path |-> h.payload.file_path, start_line |-> h.payload.start_line,
                   end_line |-> h.payload.end_line, chunk_type |-> h.payload.chunk_type,
                   name |-> h.payload.name, language |-> h.payload.language,
                   content |-> h.payload.content] : h \in hits},
                 store, requests)

\* An item of the tree GET /git/trees/{ref}?recursive=1 lists.
Blob(file_path) == [type |-> "blob", path |-> file_path]

Tree(file_path) == [type |-> "tree", path |-> file_path]

\* The trees listed: several files and a directory, one file, nothing.
Listings ==
    { <<Blob(PathGuide), Tree(<<"docs", "">>), Blob(PathNotes), Blob(PathReadme),
        Blob(PathMod)>>,
      <<Blob(PathGuide)>>,
      <<>> }

\* What github.get_file_content gives for each file of the tree.
ContentAt(file_path) ==
    CASE file_path = PathGuide -> DocV1
      [] file_path = PathReadme -> DocShort
      [] file_path = PathMod -> PyDecorated
      [] OTHER -> DocBlank

\* What happens to one file: it is fetched and indexed, or the fetch fails,
\* or the embedding service or the vector store fails while it is indexed.
Fates == {"ok", "fetch_fails", "voyage_fails", "qdrant_fails"}

EnvOf(fate) ==
    CASE fate = "voyage_fails" -> VoyageDown
      [] fate = "qdrant_fails" -> QdrantDown
      [] OTHER -> AllUp

\* The blobs of the tree index_repository does not skip.
SupportedBlobs(listing) ==
    {listing[i].path : i \in {j \in 1..Len(listing) :
        /\ listing[j].type = "blob"
        /\ Lower(listing[j].path[2]) \in DOMAIN SUPPORTED_EXTENSIONS}}

\* Mutant: the first failure ends the loop over the tree.
RECURSIVE IndexTreeAborting(_, _, _, _, _, _, _, _, _)
FileOfTreeAborting(chunks_indexed, key, owner, repo, ref, items, fates, total_chunks,
                   fetched) ==
    IF chunks_indexed.raised
    THEN Out(FALSE, total_chunks, chunks_indexed.store, fetched \o chunks_indexed.requests)
    ELSE IndexTreeAborting(chunks_indexed.store, key, owner, repo, ref, Tail(items), fates,
                           total_chunks + chunks_indexed.value,
                           fetched \o chunks_indexed.requests)

IndexTreeAborting(store, key, owner, repo, ref, items, fates, total_chunks, requests) ==
    IF items = <<>> THEN Out(FALSE, total_chunks, store, requests)
    ELSE LET file_path == Head(items).path
             fetched == Append(requests, GitHubRequest("get_file_content", file_path))
         IN  IF Head(items).type # "blob"
                \/ Lower(file_path[2]) \notin DOMAIN SUPPORTED_EXTENSIONS
             THEN IndexTreeAborting(store, key, owner, repo, ref, Tail(items), fates,
                                    total_chunks, requests)
             ELSE IF fates[file_path] = "fetch_fails"
             THEN Out(FALSE, total_chunks, store, fetched)
             ELSE FileOfTreeAborting(index_file(store, key, owner, repo, file_path,
                                                ContentAt(file_path), ref,
                                                EnvOf(fates[file_path])),
                                     key, owner, repo, ref, items, fates, total_chunks,
                                     fetched)

RECURSIVE IndexTree(_, _, _, _, _, _, _, _, _)
\* index_repository lines 163-168: index_file returned or raised for one file;
\* the loop goes on with the next item.
FileOfTree(chunks_indexed, key, owner, repo, ref, items, fates, total_chunks, fetched) ==
    IndexTree(chunks_indexed.store, key, owner, repo, ref, Tail(items), fates,
              IF chunks_indexed.raised THEN total_chunks
              ELSE total_chunks + chunks_indexed.value,
              fetched \o chunks_indexed.requests)

\* index_repository lines 151-168: the loop over the items of the tree.
IndexTree(store, key, owner, repo, ref, items, fates, total_chunks, requests) ==
    IF items = <<>> THEN Out(FALSE, total_chunks, store, requests)
    ELSE LET file_path == Head(items).path
             fetched == Append(requests, GitHubRequest("get_file_content", file_path))
         IN  IF Head(items).type # "blob"
                \/ Lower(file_path[2]) \notin DOMAIN SUPPORTED_EXTENSIONS
             THEN IndexTree(store, key, owner, repo, ref, Tail(items), fates,
                            total_chunks, requests)
             ELSE IF fates[file_path] = "fetch_fails"
             THEN IndexTree(store, key, owner, repo, ref, Tail(items), fates,
                            total_chunks, fetched)
             ELSE FileOfTree(index_file(store, key, owner, repo, file_path,
                                        ContentAt(file_path), ref, EnvOf(fates[file_path])),
                             key, owner, repo, ref, items, fates, total_chunks, fetched)

\* CodebaseIndexer.index_repository; `start` tells whether ensure_collection
\* and the request for the tree are answered.
index_repository(store, key, owner, repo, ref, listing, fates, start) ==
    LET ensured == ensure_collection(store, owner, repo,
                                     IF start = "qdrant_down" THEN QdrantDown ELSE AllUp)
        listed == Append(ensured.requests, GitHubRequest("get_tree", ref))
    IN  IF ensured.raised THEN ensured
        ELSE IF start = "tree_fails" THEN Out(TRUE, "github error", ensured.store, listed)
        ELSE IndexTree(ensured.store, key, owner, repo, ref, listing, fates, 0, listed)

Commit(added, modified, removed) ==
    [added |-> added, modified |-> modified, removed |-> removed]

Range(seq) == {seq[i] : i \in 1..Len(seq)}

\* The commit lists of the pushes delivered: one file modified; one added and
\* one modified; one removed; modified and then removed; removed and added again.
Pushes ==
    { <<Commit(<<>>, <<PathGuide>>, <<>>)>>,
      <<Commit(<<PathReadme>>, <<PathGuide>>, <<>>)>>,
      <<Commit(<<>>, <<>>, <<PathGuide>>)>>,
      <<Commit(<<>>, <<PathGuide>>, <<>>), Commit(<<>>, <<>>, <<PathGuide>>)>>,
      <<Commit(<<>>, <<>>, <<PathGuide>>), Commit(<<PathGuide>>, <<>>, <<>>)>> }

\* affected_files after the loop over the commits.
AffectedFiles(commits) ==
    UNION {Range(commits[i].added) \cup Range(commits[i].modified) : i \in 1..Len(commits)}

\* The paths index_push deletes, in order.
RECURSIVE RemovedPaths(_)
RemovedPaths(commits) ==
    IF commits = <<>> THEN <<>> ELSE Head(commits).removed \o RemovedPaths(Tail(commits))

\* Does the path exist in the tree of the push's head commit?
RECURSIVE ExistsAtHead(_, _)
ExistsAtHead(commits, file_path) ==
    IF commits = <<>> THEN FALSE
    ELSE LET last == commits[Len(commits)]
         IN  IF file_path \in Range(last.removed) THEN FALSE
             ELSE IF file_path \in Range(last.added) \cup Range(last.modified) THEN TRUE
             ELSE ExistsAtHead(SubSeq(commits, 1, Len(commits) - 1), file_path)

\* The contents the pushed files have at a head commit.
HeadContents(file_path) == IF file_path = PathGuide THEN {DocV1, DocV2} ELSE {DocShort}

Found(content) == [found |-> TRUE, content |-> content]

NotFound == [found |-> FALSE]

\* What github.get_file_content(owner, repo, file_path, ref) can give for each
\* affected file: its content at the head commit, or an HTTP error.
Trees(commits) ==
    { tree \in [AffectedFiles(commits) -> {NotFound} \cup {Found(c) : c \in Contents}] :
        \A f \in AffectedFiles(commits) :
            tree[f].found => /\ ExistsAtHead(commits, f)
                             /\ tree[f].content \in HeadContents(f) }

\* The order in which `for file_path in affected_files` visits the set: a set
\* of str iterates by hash value, so the order is fixed by the process's key.
Order(S, key) ==
    CHOOSE o \in [1..Cardinality(S) -> S] :
        \A i, j \in 1..Cardinality(S) :
            i < j => IF key = 0 THEN PathNo(o[i]) < PathNo(o[j])
                     ELSE PathNo(o[i]) > PathNo(o[j])

\* index_push lines 80-85: the deletions; the first failure leaves the job.
RECURSIVE DeleteRemoved(_, _, _, _, _, _)
DeleteRemoved(store, owner, repo, paths, env, requests) ==
    IF paths = <<>> THEN Out(FALSE, 0, store, requests)
    ELSE LET deleted == delete_file(store, owner, repo, Head(paths), env)
         IN  IF deleted.raised
             THEN Out(TRUE, deleted.value, deleted.store, requests \o deleted.requests)
             ELSE DeleteRemoved(deleted.store, owner, repo, Tail(paths), env,
                                requests \o deleted.requests)

\* index_push lines 93-99: fetch and index each affected file, a failure logged.
RECURSIVE IndexAffected(_, _, _, _, _, _, _, _, _, _)
\* index_push lines 95-99: index_file returned or raised for one file; the
\* loop goes on with the next path.
FileOfPush(chunks, key, owner, repo, ref, order, tree, env, indexed, fetched) ==
    IndexAffected(chunks.store, key, owner, repo, ref, Tail(order), tree, env,
                  IF chunks.raised THEN indexed ELSE indexed + chunks.value,
                  fetched \o chunks.requests)

IndexAffected(store, key, owner, repo, ref, order, tree, env, indexed, requests) ==
    IF order = <<>> THEN Out(FALSE, indexed, store, requests)
    ELSE LET file_path == Head(order)
             fetched == Append(requests, GitHubRequest("get_file_content", file_path))
         IN  IF ~tree[file_path].found
             THEN IndexAffected(store, key, owner, repo, ref, Tail(order), tree, env,
                                indexed, fetched)
             ELSE FileOfPush(index_file(store, key, owner, repo, file_path,
                                        tree[file_path].content, ref, env),
                             key, owner, repo, ref, order, tree, env, indexed, fetched)

\* index_push lines 101-106: the dict returned.
PushSummary(done, owner, repo, commits) ==
    Out(FALSE,
        [owner |-> owner, repo |-> repo,
         files_processed |-> Cardinality(AffectedFiles(commits)),
         chunks_indexed |-> done.value],
        done.store, done.requests)

\* webhook-api/worker.py index_push
index_push(store, key, owner, repo, ref, commits, tree, env) ==
    LET deleted == DeleteRemoved(store, owner, repo, RemovedPaths(commits), env, <<>>)
    IN  IF deleted.raised THEN deleted
        ELSE PushSummary(IndexAffected(deleted.store, key, owner, repo, ref,
                                       Order(AffectedFiles(commits), key), tree,
                                       env, 0, deleted.requests),
                         owner, repo, commits)

----------------------------------------------------------------------------
(* The codebase indexer: state machine *)

\* The hash keys a Python process can start with.
Keys == {0, 1}

\* No agent task runs while the indexer is exercised.
AgentIdle ==
    /\ task = "none"
    /\ script = "none"
    /\ loopTool = "none"
    /\ pc = "idle"
    /\ iteration = -1
    /\ messages = <<>>
    /\ response = NoResponse
    /\ blockIdx = 1
    /\ assistant_content = <<>>
    /\ tool_results = <<>>
    /\ comments_posted = 0
    /\ fix_committed = FALSE
    /\ result = NoResult
    /\ raisedAt = "none"
    /\ github = [comments |-> 0, commits |-> 0, replies |-> <<>>, reactions |-> <<>>]
    /\ hist = [modelCalls |-> 0, allOneTool |-> TRUE, zeroToolAt |-> 0,
               endTurnAt |-> 0, endReason |-> "none", varied |-> 0,
               dispatched |-> 0, succeeded |-> 0, last |-> NoDispatch]

\* The store after ensure_collection ran for every repository.
AllEnsured ==
    [n \in {collection_name(r.owner, r.repo) : r \in Repos} |->
        NewCollection(DIMENSION, "Cosine")]

\* A process starts against a vector store that is empty, or that holds the
\* (still empty) collections of the repositories.
InitIndex ==
    /\ WorkerIdle
    /\ AgentIdle
    /\ CallIdle
    /\ RaceIdle
    /\ qdrant \in {<<>>, AllEnsured}
    /\ seed \in Keys
    /\ pushes = 0
    /\ ops = 0
    /\ lastOp = NoOp

\* The operation is done: the store it left and what is remembered of it.
Finish(out, record) ==
    /\ qdrant' = out.store
    /\ ops' = ops + 1
    /\ lastOp' = record @@ [raised |-> out.raised]

\* A call of ensure_collection (index_repository's first step).
EnsureCollection ==
    /\ ops < MaxOps
    /\ \E r \in Repos, env \in StoreEnvs :
        LET out == ensure_collection(qdrant, r.owner, r.repo, env)
        IN  Finish(out, [op |-> "ensure_collection", owner |-> r.owner, repo |-> r.repo,
                         answered |-> env.qdrant, value |-> out.value,
                         requests |-> out.requests])
    /\ UNCHANGED <<agentVars, callVars, raceVars, workerVars, seed, pushes>>

\* A call of index_file (index_repository's per-file step).
IndexFile ==
    /\ ops < MaxOps
    /\ \E r \in Repos, doc \in Documents :
        \E env \in EnvsFor(doc, {<<PathGuide, DocV1>>}, Envs) :
            Finish(index_file(qdrant, seed, r.owner, r.repo, doc[1], doc[2], Branch, env),
                   [op |-> "index_file", owner |-> r.owner, repo |-> r.repo,
                    file_path |-> doc[1], content |-> doc[2]])
    /\ UNCHANGED <<agentVars, callVars, raceVars, workerVars, seed, pushes>>

\* How many stored points of the collection carry this file_path.
Matching(name, file_path) ==
    IF name \in DOMAIN qdrant
    THEN Cardinality({p \in qdrant[name].points : p.payload.file_path = file_path})
    ELSE 0

\* A call of delete_file.
DeleteFile ==
    /\ ops < MaxOps
    /\ \E r \in Repos, file_path \in {PathGuide, PathReadme}, env \in StoreEnvs :
        Finish(delete_file(qdrant, r.owner, r.repo, file_path, env),
               [op |-> "delete_file", owner |-> r.owner, repo |-> r.repo,
                file_path |-> file_path,
                matched |-> Matching(collection_name(r.owner, r.repo), file_path)])
    /\ UNCHANGED <<agentVars, callVars, raceVars, workerVars, seed, pushes>>

\* The points the store may answer a search of this collection with.
HitsFor(name, limit) ==
    IF name \in DOMAIN qdrant THEN SearchHits(qdrant[name].points, limit) ELSE {{}}

\* A call of search.
Search ==
    /\ ops < MaxOps
    /\ \E r \in Repos, limit \in {1, 10}, env \in Envs :
        \E hits \in HitsFor(collection_name(r.owner, r.repo), limit) :
            LET out == search(qdrant, r.owner, r.repo, "q", limit, env, hits)
            IN  Finish(out, [op |-> "search", owner |-> r.owner, repo |-> r.repo,
                             value |-> out.value])
    /\ UNCHANGED <<agentVars, callVars, raceVars, workerVars, seed, pushes>>

\* One index_push job: the push's head commit is its ref.
IndexPush ==
    /\ ops < MaxOps
    /\ \E r \in Repos, commits \in Pushes :
        \E tree \in Trees(commits), env \in EnvsFor(Len(commits), {1}, StoreEnvs) :
            Finish(index_push(qdrant, seed, r.owner, r.repo, Sha(pushes + 1), commits,
                              tree, env),
                   [op |-> "index_push", owner |-> r.owner, repo |-> r.repo,
                    ref |-> Sha(pushes + 1), commits |-> commits])
    /\ pushes' = pushes + 1
    /\ UNCHANGED <<agentVars, callVars, raceVars, workerVars, seed>>

\* The next operation runs in another Python process: the worker restarted,
\* another worker took the job, or the indexer CLI was started again.
ProcessStart ==
    /\ ops < MaxOps
    /\ \E key \in Keys \ {seed} : seed' = key
    /\ UNCHANGED <<agentVars, callVars, raceVars, workerVars, qdrant, pushes, ops, lastOp>>

NextIndex ==
    \/ EnsureCollection
    \/ IndexFile
    \/ DeleteFile
    \/ Search
    \/ IndexPush
    \/ ProcessStart

SpecIndex == InitIndex /\ [][NextIndex]_vars

----------------------------------------------------------------------------
(* The indexer and the search tool, every request on record *)

\* The (path, content) pairs of the traced index_file calls: markdown, code,
\* unsupported and blank files.
TracedDocuments ==
    { <<PathGuide, DocV1>>, <<PathGuide, DocBlank>>, <<PathReadme, DocShort>>,
      <<PathNotes, DocV1>>, <<PathMod, PyDecorated>>, <<PathMod, CodeBlank>>,
      <<PathApp, JsClass>>, <<PathApp, JsOneLine>>, <<PathApp, CodeBlank>>,
      <<PathForm, JsTiny>> }

\* The store after index_file stored the chunks of one file of one repository.
IndexedStore ==
    index_file(AllEnsured, 0, RepoHyphen.owner, RepoHyphen.repo, PathGuide, DocV1,
               Branch, AllUp).store

\* One operation is looked at, against a vector store that is empty, that
\* holds the empty collections of the repositories, or that holds the chunks
\* of one repository.
InitRepository ==
    /\ WorkerIdle
    /\ AgentIdle
    /\ CallIdle
    /\ RaceIdle
    /\ qdrant \in {<<>>, AllEnsured, IndexedStore}
    /\ seed \in Keys
    /\ pushes = 0
    /\ ops = 0
    /\ lastOp = NoOp

\* The operation is done: as Finish, with the store before it, what it
\* returned and the requests it issued.
Trace(out, record) ==
    /\ qdrant' = out.store
    /\ ops' = ops + 1
    /\ lastOp' = record @@ [raised |-> out.raised, value |-> out.value,
                            requests |-> out.requests, before |-> qdrant]

\* A call of index_file.
IndexFileCall ==
    /\ lastOp = NoOp
    /\ \E r \in Repos, doc \in TracedDocuments, env \in Envs :
        Trace(index_file(qdrant, seed, r.owner, r.repo, doc[1], doc[2], Branch, env),
              [op |-> "index_file", owner |-> r.owner, repo |-> r.repo,
               file_path |-> doc[1], source |-> doc[2], env |-> env])
    /\ UNCHANGED <<agentVars, callVars, raceVars, workerVars, seed, pushes>>

\* A run of index_repository (the indexer CLI).
IndexRepository ==
    /\ lastOp = NoOp
    /\ \E r \in Repos, listing \in Listings, start \in {"ok", "qdrant_down", "tree_fails"} :
        \E fates \in [SupportedBlobs(listing) -> Fates] :
            /\ start # "ok" => \A f \in DOMAIN fates : fates[f] = "ok"
            /\ Trace(index_repository(qdrant, seed, r.owner, r.repo, Branch, listing,
                                       fates, start),
                      [op |-> "index_repository", owner |-> r.owner, repo |-> r.repo,
                       listing |-> listing, fates |-> fates, start |-> start])
    /\ UNCHANGED <<agentVars, callVars, raceVars, workerVars, seed, pushes>>

\* A call of CodebaseIndexer.search.
SearchCall ==
    /\ lastOp = NoOp
    /\ \E r \in Repos, limit \in {1, 10}, env \in Envs :
        \E hits \in HitsFor(collection_name(r.owner, r.repo), limit) :
            Trace(search(qdrant, r.owner, r.repo, "q", limit, env, hits),
                  [op |-> "search", owner |-> r.owner, repo |-> r.repo, env |-> env])
    /\ UNCHANGED <<agentVars, callVars, raceVars, workerVars, seed, pushes>>

\* A call of the agents' tool search_codebase.
SearchCodebase ==
    /\ lastOp = NoOp
    /\ \E r \in Repos, limit \in {1, 5}, env \in Envs :
        \E hits \in HitsFor(collection_name(r.owner, r.repo), limit) :
            Trace(codebase_search_codebase(qdrant, r.owner, r.repo, "q", limit, env, hits),
                  [op |-> "search_codebase", owner |-> r.owner, repo |-> r.repo,
                   env |-> env])
    /\ UNCHANGED <<agentVars, callVars, raceVars, workerVars, seed, pushes>>

\* A run of the push job index_push.
IndexPushCall ==
    /\ lastOp = NoOp
    /\ \E r \in Repos, commits \in Pushes, env \in Envs :
        \E tree \in Trees(commits) :
            Trace(index_push(qdrant, seed, r.owner, r.repo, Sha(1), commits, tree, env),
                  [op |-> "index_push", owner |-> r.owner, repo |-> r.repo,
                   commits |-> commits, tree |-> tree, env |-> env])
    /\ UNCHANGED <<agentVars, callVars, raceVars, workerVars, seed, pushes>>

NextRepository ==
    \/ IndexFileCall
    \/ IndexPushCall
    \/ IndexRepository
    \/ SearchCall
    \/ SearchCodebase

SpecRepository == InitRepository /\ [][NextRepository]_vars

----------------------------------------------------------------------------
(* Single calls of the chunkers and of embed_texts *)

\* A markdown document has at most this many lines.
MaxDocLines == 4

MdLines == {<<"# A">>, <<"# B">>, <<"x">>, <<>>, <<"  ">>}

MdDocs == UNION {[1..n -> MdLines] : n \in 1..MaxDocLines}

PyDocs == {PyDecorated, PyNestedDef, PyNoDef, PyBad, PyDeep, CodeBlank}

JsDocs == {JsPlain, JsExported, JsClass, JsTiny, JsNoDeclaration, JsBroken, JsDeep,
           CodeBlank}

\* The numbers of texts embed_texts is called with: around the batch size.
TextCounts == {0, 1, 2, batch_size - 1, batch_size, batch_size + 1,
               2 * batch_size, 2 * batch_size + 1}

ChunkCall(file_path, content) ==
    [fn |-> "chunk", file_path |-> file_path, source |-> content]

EmbedCall(n, failing) == [fn |-> "embed_texts", n |-> n, failing |-> failing]

\* The texts of a call: text i is the number i.
TextsOf(c) == [i \in 1..c.n |-> i]

Calls ==
    {ChunkCall(PathGuide, content) : content \in MdDocs}
    \cup {ChunkCall(PathMod, content) : content \in PyDocs}
    \cup {ChunkCall(file_path, content) :
            file_path \in {PathApp, PathView, PathLib, PathForm}, content \in JsDocs}
    \cup {EmbedCall(n, failing) : n \in TextCounts, failing \in 0..3}

InitCall ==
    /\ WorkerIdle
    /\ AgentIdle
    /\ IndexIdle
    /\ RaceIdle
    /\ call \in Calls
    /\ returned = NotReturned

\* chunker.chunk(content, file_path), as index_file calls it.
Chunk ==
    /\ call.fn = "chunk"
    /\ ~returned.done
    /\ LET chunked == chunk(get_chunker(call.file_path), call.source, call.file_path)
       IN  returned' = [done |-> TRUE, raised |-> chunked.raised, value |-> chunked.value]
    /\ UNCHANGED <<agentVars, indexVars, raceVars, workerVars, call>>

\* embeddings.embed_texts(texts), the service failing on request `failing`.
EmbedTexts ==
    /\ call.fn = "embed_texts"
    /\ ~returned.done
    /\ LET out == embed_texts(TextsOf(call),
                              [qdrant |-> TRUE, voyage |-> call.failing = 0,
                               failing |-> call.failing])
       IN  returned' = [done |-> TRUE, raised |-> out.raised, value |-> out.value,
                        requests |-> out.requests]
    /\ UNCHANGED <<agentVars, indexVars, raceVars, workerVars, call>>

NextCall ==
    \/ Chunk
    \/ EmbedTexts

SpecCall == InitCall /\ [][NextCall]_vars

----------------------------------------------------------------------------
(* Fix tasks committing to the same file of the same branch *)

\* The fix tasks (FixAgent.fix_code runs, one per review comment).
Tasks == {1, 2}

\* Each task calls commit_fix at most this many times.
MaxCommitCalls == 2

\* `sha = None`: versions of the file are numbered from 0.
NoSha == 0 - 1

NotStarted ==
    [pc |-> "queued", head_sha |-> 0, base |-> 0, sha |-> NoSha, calls |-> 0,
     last |-> "none"]

\* Both tasks are queued; the file on the branch is at its first version.
InitRace ==
    /\ WorkerIdle
    /\ AgentIdle
    /\ IndexIdle
    /\ CallIdle
    /\ branch_file = [version |-> 0, by |-> 0]
    /\ fixers = [t \in Tasks |-> NotStarted]
    /\ accepted = <<>>

\* The job starts: head_sha is the head of the pull request at that moment.
FixStart(t) ==
    /\ fixers[t].pc = "queued"
    /\ fixers' = [fixers EXCEPT ![t].pc = "started",
                                 ![t].head_sha = branch_file.version]
    /\ UNCHANGED <<agentVars, indexVars, callVars, workerVars, branch_file, accepted>>

\* The tool get_file_content: the file as it is at ref = head_sha.
GetFileContent(t) ==
    /\ fixers[t].pc = "started"
    /\ fixers' = [fixers EXCEPT ![t].pc = "read", ![t].base = fixers[t].head_sha]
    /\ UNCHANGED <<agentVars, indexVars, callVars, workerVars, branch_file, accepted>>

\* commit_fix, first half of create_or_update_file: GET the file on the branch
\* for its sha; a failure of the request leaves sha = None.
GetSha(t) ==
    /\ fixers[t].pc = "read"
    /\ fixers[t].calls < MaxCommitCalls
    /\ \E sha \in {branch_file.version, NoSha} :
        fixers' = [fixers EXCEPT ![t].pc = "got_sha", ![t].sha = sha,
                                 ![t].calls = @ + 1]
    /\ UNCHANGED <<agentVars, indexVars, callVars, workerVars, branch_file, accepted>>

\* The host's answer to PUT /contents/{path}: the update is taken only if the
\* sha sent is the sha of the file on the branch.
PutAccepted(sha) == sha = branch_file.version

\* commit_fix, second half: PUT the new content with the sha just fetched.
\* A refusal raises in _request and _handle_tool_call returns an error result.
\* After a commit the loop goes on: the task may read and commit again.
PutFile(t) ==
    /\ fixers[t].pc = "got_sha"
    /\ IF PutAccepted(fixers[t].sha)
       THEN /\ branch_file' = [version |-> branch_file.version + 1, by |-> t]
            /\ accepted' = Append(accepted, [by |-> t, base |-> fixers[t].base,
                                              parent |-> branch_file.version,
                                              replaced |-> branch_file.by])
            /\ fixers' = [fixers EXCEPT ![t].pc = "started", ![t].last = "committed"]
       ELSE /\ fixers' = [fixers EXCEPT ![t].pc = "read", ![t].last = "error"]
            /\ UNCHANGED <<branch_file, accepted>>
    /\ UNCHANGED <<agentVars, indexVars, callVars, workerVars>>

NextRace ==
    \E t \in Tasks :
        \/ FixStart(t)
        \/ GetFileContent(t)
        \/ GetSha(t)
        \/ PutFile(t)

SpecRace == InitRace /\ [][NextRace]_vars

----------------------------------------------------------------------------
(* Two worker processes indexing at the same time.  ensure_collection asks the
   store for its collections and then, in a second request, creates the one it
   did not see; requests of another process can arrive in between. *)

MaxRuns == 2

Workers == 1..MaxRuns

\* A worker process that has not started an indexing run.
NotIndexing ==
    [pc |-> "idle", owner |-> <<>>, repo |-> <<>>, existing_names |-> {}, requests |-> <<>>]

InitEnsure ==
    /\ AgentIdle
    /\ CallIdle
    /\ RaceIdle
    /\ qdrant \in {<<>>, AllEnsured}
    /\ seed = 0
    /\ pushes = 0
    /\ ops = 0
    /\ lastOp = NoOp
    /\ ensuring = [w \in Workers |-> NotIndexing]
    /\ jobs = <<>>

\* index_repository enters ensure_collection: `self.qdrant.get_collections()`
GetCollections(w) ==
    /\ ensuring[w].pc = "idle"
    /\ \E r \in Repos :
        ensuring' = [ensuring EXCEPT ![w] =
            [pc |-> "listed", owner |-> r.owner, repo |-> r.repo,
             existing_names |-> DOMAIN qdrant,
             requests |-> <<QdrantRequest("get_collections",
                                          collection_name(r.owner, r.repo))>>]]
    /\ UNCHANGED <<agentVars, indexVars, callVars, raceVars, jobs>>

\* The rest of ensure_collection: `if collection_name not in existing_names:
\* self.qdrant.create_collection(...)`; what create_collection raises leaves
\* index_repository.
CreateIfMissing(w) ==
    /\ ensuring[w].pc = "listed"
    /\ LET name == collection_name(ensuring[w].owner, ensuring[w].repo)
           made == create_collection(qdrant, name, DIMENSION, "Cosine")
       IN  IF ~NeedsCreate(name, ensuring[w].existing_names)
           THEN /\ ensuring' = [ensuring EXCEPT ![w].pc = "ensured"]
                /\ UNCHANGED qdrant
           ELSE /\ ensuring' = [ensuring EXCEPT
                       ![w].pc = IF made.raised THEN "raised" ELSE "ensured",
                       ![w].requests = @ \o made.requests]
                /\ qdrant' = made.store
    /\ UNCHANGED <<agentVars, callVars, raceVars, seed, pushes, ops, lastOp, jobs>>

\* index_repository goes on after ensure_collection returned: the tree is
\* fetched and the files are indexed.
ProceedToIndex(w) ==
    /\ ensuring[w].pc = "ensured"
    /\ ensuring' = [ensuring EXCEPT ![w].pc = "indexing"]
    /\ UNCHANGED <<agentVars, indexVars, callVars, raceVars, jobs>>

NextEnsure ==
    \E w \in Workers :
        \/ GetCollections(w)
        \/ CreateIfMissing(w)
        \/ ProceedToIndex(w)

SpecEnsure == InitEnsure /\ [][NextEnsure]_vars

----------------------------------------------------------------------------
(* The webhook and the worker.  The webhook turns deliveries into queued jobs;
   the worker takes a queued job and calls the function of its name. *)

MaxJobs == 3

\* `instructions` when the comment is the bare command.
None == <<"None">>

\* Comment bodies, as pieces of text; "/fix" is the four-character command.
Bodies ==
    { <<"/fix">>,
      <<"/fix", " ", "use a guard">>,
      <<" ", "/fix", " ">>,
      <<"/fix", "ture">>,
      <<"looks good">>,
      <<"please", " ", "/fix">> }

CommentIds == {1, 2}

Whitespace == {" "}

\* str.strip(), on the left
RECURSIVE LStrip(_)
LStrip(body) ==
    IF body # <<>> /\ Head(body) \in Whitespace THEN LStrip(Tail(body)) ELSE body

\* str.strip(), on the right
RECURSIVE RStrip(_)
RStrip(body) ==
    IF body # <<>> /\ body[Len(body)] \in Whitespace
    THEN RStrip(SubSeq(body, 1, Len(body) - 1))
    ELSE body

\* str.strip()
strip(body) == RStrip(LStrip(body))

Ignored == [status |-> "ignored", job |-> <<>>]

Queued(function, comment_id, instructions) ==
    [status |-> "queued",
     job |-> << [function |-> function, pr_number |-> 1, comment_id |-> comment_id,
                 instructions |-> instructions, status |-> "queued",
                 result |-> "none"] >>]

\* handle_pull_request: what the delivery is answered with and the job it queues.
handle_pull_request(action, draft) ==
    IF action \notin {"opened", "synchronize", "ready_for_review"} THEN Ignored
    ELSE IF draft /\ action # "ready_for_review" THEN Ignored
    ELSE Queued("review_pr", 0, None)

\* handle_review_comment: what the delivery is answered with and the job it queues.
handle_review_comment(action, comment_id, raw) ==
    LET body == strip(raw)
    IN  IF action # "created" THEN Ignored
        ELSE IF ~(body # <<>> /\ Head(body) = "/fix") THEN Ignored
        ELSE Queued("fix_issue", comment_id,
                    IF Len(body) > 1 THEN strip(Tail(body)) ELSE None)

\* The methods the agent classes define.
AgentMethods ==
    [ReviewAgent |-> {"__init__", "review_pr", "_handle_tool_call"},
     FixAgent |-> {"__init__", "fix_code", "_handle_tool_call"}]

\* The worker's functions: the agent each one builds and the method it awaits.
WorkerFunctions ==
    [review_pr |-> [agent |-> "ReviewAgent", method |-> "review_pr"],
     fix_issue |-> [agent |-> "FixAgent", method |-> "fix_issue"]]

\* A worker function run on a job: the attribute lookup of the method raises
\* AttributeError when the class does not define it, and the job has failed;
\* otherwise the agent's task runs and its summary is the job's result.
RunFunction(job) ==
    LET called == WorkerFunctions[job.function]
    IN  IF called.method \in AgentMethods[called.agent]
        THEN [job EXCEPT !.status = "complete", !.result = "summary"]
        ELSE [job EXCEPT !.status = "failed", !.result = "AttributeError"]

InitWorker ==
    /\ AgentIdle
    /\ IndexIdle
    /\ CallIdle
    /\ RaceIdle
    /\ ensuring = <<>>
    /\ jobs = <<>>

\* A pull_request delivery reaches the webhook.
PullRequestEvent ==
    /\ Len(jobs) < MaxJobs
    /\ \E action \in {"opened", "synchronize", "ready_for_review", "closed"},
          draft \in BOOLEAN :
        jobs' = jobs \o handle_pull_request(action, draft).job
    /\ UNCHANGED <<agentVars, indexVars, callVars, raceVars, ensuring>>

\* A pull_request_review_comment delivery reaches the webhook.
ReviewCommentEvent ==
    /\ Len(jobs) < MaxJobs
    /\ \E action \in {"created", "edited"}, comment_id \in CommentIds, raw \in Bodies :
        jobs' = jobs \o handle_review_comment(action, comment_id, raw).job
    /\ UNCHANGED <<agentVars, indexVars, callVars, raceVars, ensuring>>

\* The worker takes a queued job and runs its function.
RunJob ==
    /\ \E i \in DOMAIN jobs :
        /\ jobs[i].status = "queued"
        /\ jobs' = [jobs EXCEPT ![i] = RunFunction(jobs[i])]
    /\ UNCHANGED <<agentVars, indexVars, callVars, raceVars, ensuring>>

NextWorker ==
    \/ PullRequestEvent
    \/ ReviewCommentEvent
    \/ RunJob

SpecWorker == InitWorker /\ [][NextWorker]_vars

----------------------------------------------------------------------------
(* Properties *)

Last(seq) == seq[Len(seq)]

\* The loop of the task has ended by a break or by exhausting its range.
LoopEnded == hist.endReason # "none"

\* Turn i+1 answers the tool invocations of the assistant turn i, in order.
Answered(i) ==
    LET uses == ToolUses(messages[i].content)
    IN  /\ i + 1 <= Len(messages)
        /\ messages[i + 1].role = "user"
        /\ Len(messages[i + 1].content) = Len(uses)
        /\ \A j \in 1..Len(uses) :
            /\ messages[i + 1].content[j].type = "tool_result"
            /\ messages[i + 1].content[j].tool_use_id = uses[j].id

\* C1: in both loops every assistant turn of the conversation that holds k >= 1
\* tool invocations is directly followed by one user turn of exactly k tool
\* results whose tool_use_id values are the invocations' ids in the same order,
\* whether a further model call follows or the loop has stopped.
C1_InvocationsAnswered ==
    \A i \in 1..Len(messages) :
        (messages[i].role = "assistant" /\ NumToolUses(messages[i].content) >= 1)
            => Answered(i)

\* A two-invocation turn (ids toolu_a, toolu_b) was answered and a further model
\* call is about to be issued.
C1_Witness ==
    /\ pc = "loop"
    /\ LoopHasNext
    /\ Len(messages) = 3
    /\ NumToolUses(messages[2].content) = 2
    /\ messages[3].content[2].tool_use_id = "toolu_b"

\* C2: a task issues at most its maximum number of model calls (20 review, 15
\* fix, review above fix), and exhausting the range is a normal end of the loop:
\* the code after the loop runs, and the summary it returns reports the maximum.
C2_BoundedModelCalls ==
    /\ ReviewMaxIterations > FixMaxIterations
    /\ hist.modelCalls <= max_iterations
    /\ hist.endReason = "exhausted" =>
        /\ hist.modelCalls = max_iterations
        /\ raisedAt \notin {"preamble", "model"}
        /\ pc = "returned" => (result.returned /\ result.iterations = max_iterations)

\* A review task ran all 20 cycles and returned its summary.
C2_Witness ==
    /\ task = "review"
    /\ hist.endReason = "exhausted"
    /\ pc = "returned"
    /\ result.iterations = 20

\* C3: after the first assistant turn without tool invocations no further model
\* call is issued and the loop ends; when that turn is turn 1 the run is exactly
\* one cycle: iterations = 1 and the conversation is the initial user turn plus
\* one assistant turn.
C3_StopsAtFirstToolFreeTurn ==
    hist.zeroToolAt # 0 =>
        /\ hist.modelCalls = hist.zeroToolAt
        /\ pc # "loop"
        /\ pc # "blocks" => hist.endReason = "no_tools"
        /\ (hist.zeroToolAt = 1 /\ pc # "blocks") =>
            /\ iteration + 1 = 1
            /\ Len(messages) = 2
            /\ messages[1] = InitialMessages[1]
            /\ messages[2].role = "assistant"
            /\ pc = "returned" => result.iterations = 1

\* The model answered turn 1 without tools and the task returned.
C3_Witness ==
    /\ hist.zeroToolAt = 1
    /\ pc = "returned"
    /\ result.iterations = 1

\* C4 as stated: with a model whose every turn holds exactly one tool
\* invocation, the loop ends at exactly the maximum cycle count.
C4_OneToolTurnsRunToMax ==
    (LoopEnded /\ hist.allOneTool) => hist.modelCalls = max_iterations

\* C4 amended: with a model whose every turn holds exactly one tool invocation
\* and never carries the stop signal end_turn, the loop ends at exactly the
\* maximum cycle count, whether the tool calls succeed or fail.
C4_OneToolTurnsWithoutEndTurnRunToMax ==
    (LoopEnded /\ hist.allOneTool /\ hist.endTurnAt = 0) =>
        /\ hist.endReason = "exhausted"
        /\ hist.modelCalls = max_iterations
        /\ iteration + 1 = max_iterations

\* A fix task of one-invocation turns, one of whose tool calls failed, ran to
\* the maximum.
C4_Witness ==
    /\ task = "fix"
    /\ LoopEnded
    /\ hist.allOneTool
    /\ hist.endTurnAt = 0
    /\ hist.varied = 1
    /\ hist.modelCalls = 15

\* C5: once a turn carries the stop signal end_turn the loop ends after that
\* cycle even when the turn held tool invocations: no further model call is
\* issued, and the invocations of that turn were all dispatched and their
\* results appended as the last turn of the conversation.
C5_EndTurnStopsAfterDispatch ==
    hist.endTurnAt # 0 =>
        /\ hist.modelCalls = hist.endTurnAt
        /\ pc # "loop"
        /\ (pc # "blocks" /\ HasToolUse(response.content)) =>
            /\ hist.endReason = "end_turn"
            /\ Len(tool_results) = NumToolUses(response.content)
            /\ Last(messages) = ToolResultTurn(tool_results)
            /\ Answered(Len(messages) - 1)

\* A turn with two invocations and end_turn: both were answered, the task returned.
C5_Witness ==
    /\ hist.endTurnAt # 0
    /\ pc = "returned"
    /\ NumToolUses(response.content) = 2
    /\ hist.endReason = "end_turn"

\* C6: at the end of a fix task fix_committed is true if and only if at least
\* one commit_fix invocation was accepted by the repository, whatever the commit
\* descriptor holds and whatever commit_fix calls failed before or after.
C6_CommittedIffCommitAccepted ==
    (task = "fix" /\ LoopEnded) => (fix_committed <=> github.commits >= 1)

\* C7: every fix task whose loop ran sends exactly one outcome reply, however
\* the loop ended: the affirmative reply and a rocket reaction if and only if
\* fix_committed, otherwise the negative reply; never zero replies, never both.
C7_ExactlyOneOutcomeReply ==
    (task = "fix" /\ hist.modelCalls >= 1 /\ pc \in {"returned", "raised"}) =>
        /\ Len(github.replies) = 1
        /\ github.replies[1] = (IF fix_committed THEN AffirmativeReply ELSE NegativeReply)
        /\ raisedAt = "none" =>
            (fix_committed <=> \E i \in 1..Len(github.reactions) :
                                   github.reactions[i] = "rocket")

\* C8: the comments_posted a review task returns is the number of review
\* comments the repository accepted during the task.
C8_CommentsPostedCountsAccepted ==
    (task = "review" /\ pc = "returned") => result.comments_posted = github.comments

\* C9: the envelope of every dispatched invocation of a registered tool carries
\* the error marker if and only if the underlying operation failed (the failures
\* search_codebase reports itself included); a success carries no marker and the
\* result coerced to a string.
C9_ErrorMarkerIffFailed ==
    (tool_results # <<>> /\ hist.last.name \in Registry) =>
        LET envelope == Last(tool_results)
            failed == hist.last.answer \in FailedAnswers
        IN  /\ ("is_error" \in DOMAIN envelope) <=> failed
            /\ ~failed => envelope.content = PyStr(CallTool(hist.last.name,
                                                            hist.last.answer).value)

\* The block the loop has just passed.
PreviousBlock == response.content[blockIdx - 1]

\* An invocation of a tool outside the task's registry is being dispatched.
DispatchingUnknown ==
    /\ InBlocks
    /\ CurrentBlock.type = "tool_use"
    /\ CurrentBlock.name \notin Registry

C11_InvalidArgumentsRejected ==
    (tool_results # <<>> /\ hist.last.name \in Registry /\ hist.last.input # "valid")
        => /\ hist.last.calls = <<>>
           /\ "is_error" \in DOMAIN Last(tool_results)

\* C12: no failure of a collaborator call, a language-model call included,
\* leaves review_pr / fix_code as an exception.
C12_FailuresContained == pc # "raised"

\* A step that issues a language-model call (answered or failing).
IssuesModelCall == pc = "loop" /\ pc' \in {"blocks", "raised"}

\* C13: model calls are issued one at a time, and the call of the next cycle is
\* issued only when every tool invocation of the previous response has been
\* dispatched and the assistant turn and its results are the last two turns of
\* the conversation.
C13_OneModelCallAtATime ==
    [][ /\ hist'.modelCalls # hist.modelCalls =>
            (IssuesModelCall /\ hist'.modelCalls = hist.modelCalls + 1)
        /\ (IssuesModelCall /\ hist.modelCalls >= 1) =>
            /\ blockIdx > Len(response.content)
            /\ Len(tool_results) = NumToolUses(response.content)
            /\ Len(messages) >= 3
            /\ Last(messages) = ToolResultTurn(tool_results)
            /\ ToolUses(messages[Len(messages) - 1].content) = ToolUses(response.content)
      ]_vars

\* The second model call was issued after a cycle of two invocations, both
\* answered in the conversation.
C13_Witness ==
    /\ hist.modelCalls = 2
    /\ pc = "blocks"
    /\ blockIdx = 1
    /\ Len(messages) = 3
    /\ Len(messages[3].content) = 2

\* C14: nothing deduplicates: the comments and commits the repository host
\* holds are one per invocation of post_review_comment / commit_fix that
\* succeeded, identical invocations included.
C14_OneEffectPerSuccessfulInvocation ==
    /\ task = "review" => github.comments = hist.succeeded /\ github.commits = 0
    /\ task = "fix" => github.commits = hist.succeeded /\ github.comments = 0

\* Two commit_fix invocations with the same arguments in one turn both
\* succeeded.
C14_Witness ==
    /\ task = "fix"
    /\ hist.succeeded = 2
    /\ github.commits = 2
    /\ Len(assistant_content) = 2
    /\ assistant_content[1].name = "commit_fix"
    /\ assistant_content[2].name = "commit_fix"
    /\ assistant_content[1].input = assistant_content[2].input

----------------------------------------------------------------------------
(* Properties of the indexer *)

\* The indexer operation this step completed.
Completes(op) == ops' = ops + 1 /\ lastOp'.op = op /\ ~lastOp'.raised

\* Two index_file calls in a row on the same (owner, repo, file_path, ref),
\* both completing.
IndexedTwice ==
    /\ lastOp.op = "index_file"
    /\ ~lastOp.raised
    /\ Completes("index_file")
    /\ lastOp'.owner = lastOp.owner
    /\ lastOp'.repo = lastOp.repo
    /\ lastOp'.file_path = lastOp.file_path

\* C15: indexing the same unchanged file again with the same (owner, repo,
\* file_path, content, ref), in the same or in another process, leaves the
\* point set of the first pass.
C15_ReindexIdempotent ==
    [][(IndexedTwice /\ lastOp'.content = lastOp.content) => qdrant' = qdrant]_vars

\* C16: the points the push path stored for one file of one repository are at
\* most one per (file_path, start_line), however many pushes modified the file.
C16_PushOverwrites ==
    \A n \in DOMAIN qdrant : \A p, q \in qdrant[n].points :
        ( /\ p.payload.ref[1] = "sha"
          /\ q.payload.ref[1] = "sha"
          /\ p.payload.owner = q.payload.owner
          /\ p.payload.repo = q.payload.repo
          /\ p.payload.file_path = q.payload.file_path
          /\ p.payload.start_line = q.payload.start_line ) => p = q

\* C17: after two index_file calls in a row on the same (owner, repo,
\* file_path, ref) with different content, every stored point of that file at
\* a start line the second call produced carries the second call's chunk.
C17_SecondCallWins ==
    [][(IndexedTwice /\ lastOp'.content # lastOp.content
                     /\ get_chunker(lastOp'.file_path) # "None") =>
        LET name == collection_name(lastOp'.owner, lastOp'.repo)
            second == chunk(get_chunker(lastOp'.file_path), lastOp'.content,
                            lastOp'.file_path).value
        IN  \A p \in qdrant'[name].points : \A i \in 1..Len(second) :
                ( /\ p.payload.owner = lastOp'.owner
                  /\ p.payload.repo = lastOp'.repo
                  /\ p.payload.file_path = lastOp'.file_path
                  /\ p.payload.ref = Branch
                  /\ p.payload.start_line = second[i].start_line )
                => /\ p.payload.content = second[i].content
                   /\ p.payload.end_line = second[i].end_line
                   /\ p.payload.name = second[i].name
                   /\ p.vector = Embedding(second[i].content, "document")
      ]_vars

\* C18: when delete_file completes, the collection holds no point of that
\* file_path (whatever its lines or ref) and every other point is as before, so
\* no search of the collection can return the path; and a search returns stored
\* points only.
C18_DeleteRemovesFile ==
    [][ /\ Completes("delete_file") =>
            LET name == collection_name(lastOp'.owner, lastOp'.repo)
                others == {p \in qdrant[name].points :
                             p.payload.file_path # lastOp'.file_path}
            IN  /\ DOMAIN qdrant' = DOMAIN qdrant
                /\ \A n \in DOMAIN qdrant \ {name} : qdrant'[n] = qdrant[n]
                /\ qdrant'[name].points = others
                /\ \A p \in qdrant'[name].points :
                       p.payload.file_path # lastOp'.file_path
                /\ \A limit \in {1, 10} :
                       \A hits \in SearchHits(qdrant'[name].points, limit) :
                           \A h \in hits : h.payload.file_path # lastOp'.file_path
        /\ Completes("search") =>
            /\ qdrant' = qdrant
            /\ lastOp'.value \subseteq
                 {p.payload :
                     p \in qdrant[collection_name(lastOp'.owner, lastOp'.repo)].points}
      ]_vars

\* delete_file removed the two points of one file and left the point a push
\* stored for another file.
C18_Witness ==
    /\ lastOp.op = "delete_file"
    /\ ~lastOp.raised
    /\ lastOp.matched = 2
    /\ \E p \in qdrant[collection_name(lastOp.owner, lastOp.repo)].points :
          /\ p.payload.file_path # lastOp.file_path
          /\ p.payload.ref[1] = "sha"

\* C19: whenever the vector store answers, ensure_collection issues a create
\* request (size 1024, cosine) exactly when no collection of the canonical
\* name exists, returns the canonical name, and leaves every existing
\* collection, the named one included, as it was.
C19_EnsureCollectionIdempotent ==
    [][(ops' = ops + 1 /\ lastOp'.op = "ensure_collection" /\ lastOp'.answered) =>
        LET name == collection_name(lastOp'.owner, lastOp'.repo)
            created == \E i \in 1..Len(lastOp'.requests) :
                          lastOp'.requests[i].op = "create_collection"
        IN  /\ ~lastOp'.raised
            /\ lastOp'.value = name
            /\ created <=> name \notin DOMAIN qdrant
            /\ DOMAIN qdrant' = DOMAIN qdrant \cup {name}
            /\ \A n \in DOMAIN qdrant : qdrant'[n] = qdrant[n]
            /\ created => qdrant'[name] = [size |-> 1024, distance |-> "Cosine",
                                           points |-> {}]
      ]_vars

\* ensure_collection ran again on a collection that holds points and issued no
\* create request.
C19_Witness ==
    /\ lastOp.op = "ensure_collection"
    /\ ~lastOp.raised
    /\ Len(lastOp.requests) = 1
    /\ qdrant[lastOp.value].points # {}

\* C20: a collection holds the points of one (owner, repo) pair only.
C20_CollectionsIsolated ==
    \A n \in DOMAIN qdrant : \A p, q \in qdrant[n].points :
        p.payload.owner = q.payload.owner /\ p.payload.repo = q.payload.repo

\* C23: embed_texts(texts) returns exactly one vector per text, vector i being
\* the document embedding of text i, after ceil(len(texts)/128) requests that
\* carry the texts in order, at most 128 each; an empty list of texts is
\* answered with an empty list and no request.
C23_OneVectorPerText ==
    (call.fn = "embed_texts" /\ returned.done /\ ~returned.raised) =>
        LET texts == TextsOf(call)
            n == Len(texts)
            requests == returned.requests
        IN  /\ Len(returned.value) = n
            /\ \A i \in 1..n : returned.value[i] = Embedding(texts[i], "document")
            /\ Len(requests) = (n + 127) \div 128
            /\ \A b \in 1..Len(requests) :
                /\ requests[b].n <= 128
                /\ requests[b].batch = SubSeq(texts, 128 * (b - 1) + 1, Min(128 * b, n))
            /\ n = 0 => returned.value = <<>> /\ requests = <<>>

\* 257 texts were embedded with three requests.
C23_Witness ==
    /\ call.fn = "embed_texts"
    /\ call.n = 257
    /\ returned.done
    /\ ~returned.raised
    /\ Len(returned.requests) = 3
    /\ Len(returned.value) = 257

\* The line numbers of the heading lines of a markdown document.
Headings(lines) == {i \in 1..Len(lines) : lines[i] \in {<<"# A">>, <<"# B">>}}

\* The line a section that starts at line h ends with: the line before the
\* next heading, or the last line.
SectionEnd(lines, h) ==
    IF \E j \in Headings(lines) : j > h
    THEN (CHOOSE j \in Headings(lines) : j > h /\ \A k \in Headings(lines) : k > h => j <= k) - 1
    ELSE Len(lines)

\* C28: MarkdownChunker.chunk emits one section per heading line, and one more
\* for the lines before the first heading if and only if one of them is not
\* blank; a section runs from its heading line to the line before the next
\* heading (or the last line) and is named by the heading's text.
C28_MarkdownSections ==
    (call.fn = "chunk" /\ call.file_path = PathGuide /\ returned.done) =>
        LET lines == call.source
            sections == returned.value
            preamble_end == SectionEnd(lines, 0)
            preamble == IF \E i \in 1..preamble_end : lines[i] \notin {<<>>, <<"  ">>}
                        THEN 1 ELSE 0
            headings == Headings(lines)
        IN  /\ ~returned.raised
            /\ Len(sections) = Cardinality(headings) + preamble
            /\ preamble = 1 =>
                /\ sections[1].name = <<>>
                /\ sections[1].start_line = 1
                /\ sections[1].end_line = preamble_end
                /\ sections[1].content = SubSeq(lines, 1, preamble_end)
            /\ \A k \in (preamble + 1)..Len(sections) :
                LET h == sections[k].start_line
                IN  /\ h \in headings
                    /\ Cardinality({j \in headings : j <= h}) = k - preamble
                    /\ sections[k].end_line = SectionEnd(lines, h)
                    /\ sections[k].content = SubSeq(lines, h, SectionEnd(lines, h))
                    /\ sections[k].name = (IF lines[h] = <<"# A">> THEN <<"A">> ELSE <<"B">>)
                    /\ sections[k].chunk_type = "section"

\* A document with a non-blank preamble and two headings gave three sections.
C28_Witness ==
    /\ call.fn = "chunk"
    /\ call.file_path = PathGuide
    /\ call.source = << <<"x">>, <<"# A">>, <<"x">>, <<"# B">> >>
    /\ returned.done
    /\ Len(returned.value) = 3

\* A document with a blank preamble and two headings gave two sections.
C28_WitnessBlank ==
    /\ call.fn = "chunk"
    /\ call.file_path = PathGuide
    /\ call.source = << <<"  ">>, <<"# A">>, <<"x">>, <<"# B">> >>
    /\ returned.done
    /\ Len(returned.value) = 2

\* C29: every chunk a chunker returns has 1 <= start_line <= end_line <= number
\* of lines of the content, and its content is exactly the lines
\* start_line..end_line of the content.
C29_ChunksAreTheirLines ==
    (call.fn = "chunk" /\ returned.done /\ ~returned.raised) =>
        \A k \in 1..Len(returned.value) :
            LET c == returned.value[k]
            IN  /\ 1 <= c.start_line
                /\ c.start_line <= c.end_line
                /\ c.end_line <= Len(call.source)
                /\ c.content = SubSeq(call.source, c.start_line, c.end_line)

\* The parser could not parse the content of the call.
ParsingFails ==
    CASE get_chunker(call.file_path) = "PythonASTChunker" ->
            ast_parse(call.source).raises # "None"
      [] get_chunker(call.file_path) = "TreeSitterChunker" ->
            parser_parse(call.source).has_error
      [] OTHER -> FALSE

\* The content of the call has a non-blank line.
NonBlank ==
    \E i \in 1..Len(call.source) : call.source[i] \notin {<<>>, <<"  ">>, <<"  ", "  ">>}

\* The list holds one chunk for the whole file, named by the file's base name.
IsWholeFile(chunks) ==
    /\ Len(chunks) = 1
    /\ chunks[1].chunk_type \in {"module", "document"}
    /\ chunks[1].start_line = 1
    /\ chunks[1].end_line = Len(call.source)
    /\ chunks[1].content = call.source
    /\ chunks[1].name = BaseName(call.file_path)

\* C30: chunk() never raises; when parsing fails it returns exactly one
\* whole-file chunk; it returns at least one chunk for every non-blank content.
C30_ChunkNeverRaises ==
    (call.fn = "chunk" /\ returned.done) =>
        /\ ~returned.raised
        /\ ParsingFails => IsWholeFile(returned.value)
        /\ NonBlank => returned.value # <<>>

\* C27: a commit_fix whose content was derived from a version of the file that
\* another task has since replaced is refused: every commit the host accepted
\* replaced the version its content was derived from.
C27_StaleCommitRejected ==
    \A i \in 1..Len(accepted) : accepted[i].base = accepted[i].parent

\* The requests of the last operation that went to one collaborator.
RequestsTo(whom) ==
    {i \in 1..Len(lastOp.requests) : lastOp.requests[i].to = whom}

\* The chunks of the files of the listed tree.
ChunksIn(file_path) ==
    CASE file_path = PathGuide -> 2
      [] file_path = PathReadme -> 1
      [] file_path = PathMod -> 3
      [] OTHER -> 0

RECURSIVE TotalChunks(_)
TotalChunks(files) ==
    IF files = {} THEN 0
    ELSE LET f == CHOOSE f \in files : TRUE
         IN  ChunksIn(f) + TotalChunks(files \ {f})

\* C21: when ensure_collection and the tree request succeed, index_repository
\* returns, whatever fails for single files: every supported blob of the tree
\* is fetched, every file that did not fail is indexed, and the total returned
\* is the sum of the counts of the files indexed.
C21_FailedFileSkipped ==
    (lastOp.op = "index_repository" /\ lastOp.start = "ok") =>
        LET blobs == {lastOp.listing[i].path : i \in {j \in 1..Len(lastOp.listing) :
                        /\ lastOp.listing[j].type = "blob"
                        /\ lastOp.listing[j].path[2] \in {".md", ".MD", ".py"}}}
            indexed == {f \in blobs : lastOp.fates[f] = "ok"}
        IN  /\ ~lastOp.raised
            /\ lastOp.value = TotalChunks(indexed)
            /\ \A f \in blobs :
                \E i \in RequestsTo("github") :
                    /\ lastOp.requests[i].op = "get_file_content"
                    /\ lastOp.requests[i].path = f
            /\ Cardinality({i \in RequestsTo("qdrant") : lastOp.requests[i].op = "upsert"})
                = Cardinality({f \in blobs : lastOp.fates[f] \in {"ok", "qdrant_fails"}})
            /\ \A f \in indexed :
                \E p \in qdrant[collection_name(lastOp.owner, lastOp.repo)].points :
                    p.payload.owner = lastOp.owner /\ p.payload.repo = lastOp.repo

\* The first file of the tree failed at the embedding service; the two files
\* after it were indexed, four chunks in all.
C21_Witness ==
    /\ lastOp.op = "index_repository"
    /\ lastOp.start = "ok"
    /\ Len(lastOp.listing) = 5
    /\ lastOp.fates[PathGuide] = "voyage_fails"
    /\ lastOp.fates[PathReadme] = "ok"
    /\ lastOp.fates[PathMod] = "ok"
    /\ ~lastOp.raised
    /\ lastOp.value = 4

\* C22: index_file on a path whose (lower-cased) extension is not one of .ts,
\* .tsx, .js, .jsx, .py, .md, or on a supported file without a chunk, returns 0
\* without raising and without a request to the embedding service or the
\* vector store; the store is as it was.
C22_NothingToIndex ==
    (/\ lastOp.op = "index_file"
     /\ \/ lastOp.file_path[2] \notin {".ts", ".tsx", ".js", ".jsx", ".py", ".md", ".MD"}
        \/ lastOp.source \in {DocBlank, CodeBlank}) =>
        /\ ~lastOp.raised
        /\ lastOp.value = 0
        /\ lastOp.requests = <<>>
        /\ qdrant = lastOp.before

\* index_file was given a .txt file with two headings, against a store that
\* holds chunks, and returned 0.
C22_Witness ==
    /\ lastOp.op = "index_file"
    /\ lastOp.file_path = PathNotes
    /\ lastOp.source = DocV1
    /\ lastOp.before = IndexedStore
    /\ lastOp.value = 0

\* index_file was given a blank Python file and returned 0.
C22_WitnessBlank ==
    /\ lastOp.op = "index_file"
    /\ lastOp.file_path = PathMod
    /\ lastOp.source = CodeBlank
    /\ lastOp.value = 0

\* C24: every embedding request of an indexing operation is tagged document;
\* every embedding request of a search (CodebaseIndexer.search, the tool
\* search_codebase) carries one text and is tagged query.
C24_ModesNotInterchanged ==
    /\ lastOp.op \in {"index_file", "index_repository"} =>
        \A i \in RequestsTo("voyage") : lastOp.requests[i].input_type = "document"
    /\ lastOp.op \in {"search", "search_codebase"} =>
        \A i \in RequestsTo("voyage") :
            /\ lastOp.requests[i].input_type = "query"
            /\ lastOp.requests[i].n = 1

\* CodebaseIndexer.search embedded its query and got the stored chunks, which
\* had been embedded as documents.
C24_Witness ==
    /\ lastOp.op = "search"
    /\ ~lastOp.raised
    /\ RequestsTo("voyage") # {}
    /\ lastOp.value # {}
    /\ \A p \in qdrant[collection_name(lastOp.owner, lastOp.repo)].points :
        p.vector.input_type = "document"

\* C25: when the embedding request of index_file fails, index_file raises, the
\* request is not repeated, nothing is sent to the vector store and the store
\* is as it was.
C25_EmbeddingFailureStoresNothing ==
    (lastOp.op = "index_file" /\ ~lastOp.env.voyage /\ RequestsTo("voyage") # {}) =>
        /\ lastOp.raised
        /\ Cardinality(RequestsTo("voyage")) = 1
        /\ RequestsTo("qdrant") = {}
        /\ qdrant = lastOp.before

\* The embedding request for a file with two sections failed, against a store
\* that holds chunks of that file.
C25_Witness ==
    /\ lastOp.op = "index_file"
    /\ lastOp.file_path = PathGuide
    /\ lastOp.source = DocV1
    /\ ~lastOp.env.voyage
    /\ lastOp.raised
    /\ lastOp.before = IndexedStore
    /\ qdrant = IndexedStore

\* C26: a search of a repository that has no collection returns the error
\* result "not indexed", does not raise and spends no embedding request,
\* through CodebaseIndexer.search and through the tool search_codebase.
C26_NotIndexedReported ==
    (/\ lastOp.op \in {"search", "search_codebase"}
     /\ lastOp.env.qdrant
     /\ collection_name(lastOp.owner, lastOp.repo) \notin DOMAIN lastOp.before) =>
        /\ ~lastOp.raised
        /\ RequestsTo("voyage") = {}
        /\ lastOp.value = {[error |-> "Repository not indexed yet"]}

\* C31: index_push returns its summary whatever fails for one file of the
\* push, a re-indexed path or a removed one.
C31_PushFailureContained ==
    lastOp.op = "index_push" => ~lastOp.raised

\* C32: the conversation starts as the one user turn with the task framing;
\* every step leaves the turns it had as they were and only appends; the
\* turns alternate user, assistant, user, ...; and every model call is made
\* with a conversation that ends in a user turn.
C32_ConversationAlternates ==
    [][ /\ (messages = <<>> /\ messages' # <<>>) =>
            /\ Len(messages') = 1
            /\ messages'[1].role = "user"
            /\ messages'[1].content = <<[type |-> "framing"]>>
        /\ Len(messages') >= Len(messages)
        /\ \A i \in 1..Len(messages) : messages'[i] = messages[i]
        /\ \A i \in 1..Len(messages') :
            messages'[i].role = IF i % 2 = 1 THEN "user" ELSE "assistant"
        /\ hist'.modelCalls # hist.modelCalls =>
            /\ messages # <<>>
            /\ messages[Len(messages)].role = "user"
      ]_vars

\* Two cycles with tool invocations were appended and the third model call
\* was made with the five turns.
C32_Witness ==
    /\ Len(messages) = 5
    /\ hist.modelCalls = 3
    /\ messages[4].role = "assistant"
    /\ messages[5].role = "user"

\* C37: a get_file_content of a fix task that comes after a commit_fix of the
\* same task was accepted, the file on the branch still being that commit,
\* returns the content committed.
C37_ReadsOwnWrites ==
    [][ \A t \in Tasks :
            ( /\ fixers[t].pc = "started"
              /\ fixers'[t].pc = "read"
              /\ fixers[t].last = "committed"
              /\ branch_file.by = t )
            => fixers'[t].base = branch_file.version
      ]_vars

\* The points of a store that belong to one file of one repository.
PointsOfFile(store, owner, repo, file_path) ==
    IF collection_name(owner, repo) \notin DOMAIN store THEN {}
    ELSE {p \in store[collection_name(owner, repo)].points :
            /\ p.payload.owner = owner
            /\ p.payload.repo = repo
            /\ p.payload.file_path = file_path}

\* C36: when index_file returns for a file that had no points, the count it
\* returns is the number of points of that file in the collection.
C36_CountIsPointsStored ==
    ( /\ lastOp.op = "index_file"
      /\ ~lastOp.raised
      /\ PointsOfFile(lastOp.before, lastOp.owner, lastOp.repo, lastOp.file_path) = {} )
    => lastOp.value
       = Cardinality(PointsOfFile(qdrant, lastOp.owner, lastOp.repo, lastOp.file_path))

\* C35: every upsert and every delete of an indexing job (index_push,
\* index_repository) goes to a collection that exists when the request is
\* issued: it was there before the job or the job created it before.
C35_WritesToExistingCollection ==
    lastOp.op \in {"index_push", "index_repository"} =>
        \A i \in RequestsTo("qdrant") :
            lastOp.requests[i].op \in {"upsert", "delete"} =>
                \/ lastOp.requests[i].collection \in DOMAIN lastOp.before
                \/ \E j \in RequestsTo("qdrant") :
                    /\ j < i
                    /\ lastOp.requests[j].op = "create_collection"
                    /\ lastOp.requests[j].collection = lastOp.requests[i].collection

\* The paths a push names.
RECURSIVE PathsOfPush(_)
PathsOfPush(commits) ==
    IF commits = <<>> THEN {}
    ELSE Range(Head(commits).added) \cup Range(Head(commits).modified)
         \cup Range(Head(commits).removed) \cup PathsOfPush(Tail(commits))

\* C39: after index_push, with the services answering (every file that
\* exists at ref is fetched), a path of the push that does not exist at ref
\* has no points, and a path that exists at ref has a point at ref for every
\* chunk of its content at ref.
C39_PushNetEffect ==
    ( /\ lastOp.op = "index_push"
      /\ lastOp.env = AllUp
      /\ \A f \in DOMAIN lastOp.tree :
            lastOp.tree[f].found = ExistsAtHead(lastOp.commits, f) ) =>
        /\ ~lastOp.raised
        /\ \A f \in PathsOfPush(lastOp.commits) :
            IF ExistsAtHead(lastOp.commits, f)
            THEN LET chunks == chunk(get_chunker(f), lastOp.tree[f].content, f).value
                 IN  \A i \in 1..Len(chunks) :
                        \E p \in PointsOfFile(qdrant, lastOp.owner, lastOp.repo, f) :
                            /\ p.payload.ref = Sha(1)
                            /\ p.payload.start_line = chunks[i].start_line
                            /\ p.payload.content = chunks[i].content
            ELSE PointsOfFile(qdrant, lastOp.owner, lastOp.repo, f) = {}

\* C34: a review task never commits and a fix task never posts a review
\* comment, whatever the model asks for: the repository host has no commit
\* of a review task and no comment of a fix task, and an invocation of a tool
\* outside the task's registry is answered as an unknown tool with no call to
\* a collaborator.
C34_ToolSetsIsolated ==
    /\ task = "review" => (github.commits = 0 /\ ~fix_committed)
    /\ task = "fix" => (github.comments = 0 /\ comments_posted = 0)
    /\ (hist.last.name \in ToolNames \ Registry /\ tool_results # <<>>) =>
        /\ hist.last.calls = <<>>
        /\ ~hist.last.raised
        /\ Last(tool_results).content = <<"error", "Unknown tool">>

\* A fix task has answered a post_review_comment invocation; no comment was
\* posted.
C34_Witness ==
    /\ task = "fix"
    /\ hist.last.name = "post_review_comment"
    /\ tool_results # <<>>
    /\ Last(tool_results).content = <<"error", "Unknown tool">>
    /\ github.comments = 0

\* A review task has answered a commit_fix invocation after it posted a
\* comment; nothing was committed.
C34_WitnessReview ==
    /\ task = "review"
    /\ hist.last.name = "commit_fix"
    /\ tool_results # <<>>
    /\ github.comments = 1
    /\ github.commits = 0

\* C33: of two indexing runs inside ensure_collection at the same time, neither
\* fails because of the other: no run leaves ensure_collection by an exception
\* while the store is reachable.
C33_NeitherRunFails ==
    \A w \in DOMAIN ensuring : ensuring[w].pc # "raised"

\* C38: a fix job the worker has taken from the queue runs the fix agent's
\* loop: it does not fail before the agent's task has started.
C38_FixJobRunsTheLoop ==
    \A i \in DOMAIN jobs :
        (jobs[i].function = "fix_issue" /\ jobs[i].status # "queued") =>
            jobs[i].status = "complete"

====
